---- MODULE Spec2Model ----
(***************************************************************************)
(* Model of the Samsara ROI calculator: input validation (validate.js),    *)
(* the scenario adjuster and the calculation engine (formulas.js), and the *)
(* recompute cycle of the application (README.md app listing, ui.js).      *)
(*                                                                         *)
(* A JavaScript number is modelled as an exact rational [n, d] with d > 0, *)
(* or as one of the three non-finite values (d = 0): Infinity, -Infinity   *)
(* and NaN.  Rounding of doubles is not modelled.                          *)
(* A JavaScript value is Null (null or undefined, which the code never     *)
(* tells apart), a number NumV(x), or a string Str(s) with s a sequence of *)
(* one-character strings.                                                  *)
(***************************************************************************)
EXTENDS Integers, Sequences, FiniteSets, TLC

\* ------------------------------------------------------------ numbers

Abs(i) == IF i < 0 THEN -i ELSE i

Sgn(i) == IF i < 0 THEN -1 ELSE IF i > 0 THEN 1 ELSE 0

RECURSIVE GCD(_, _)
GCD(a, b) == IF b = 0 THEN a ELSE GCD(b, a % b)

\* The finite number n/d (d > 0) in lowest terms.
Norm(n, d) ==
    LET g == GCD(Abs(n), d)
    IN  IF n = 0 THEN [n |-> 0, d |-> 1] ELSE [n |-> n \div g, d |-> d \div g]

Frac(a, b) == Norm(a, b)
Num(i) == [n |-> i, d |-> 1]
Zero == Num(0)
NaN == [n |-> 0, d |-> 0]
PosInf == [n |-> 1, d |-> 0]
NegInf == [n |-> -1, d |-> 0]

IsFinite(x) == x.d > 0
IsNaN(x) == x = NaN
IsZero(x) == x.d > 0 /\ x.n = 0
SignOf(x) == Sgn(x.n)

Neg(x) == [n |-> -x.n, d |-> x.d]

\* x + y of IEEE arithmetic: NaN is absorbing, Infinity + -Infinity is NaN.
Add(x, y) ==
    IF IsFinite(x) /\ IsFinite(y)
    THEN LET g == GCD(x.d, y.d)
         IN  Norm(x.n * (y.d \div g) + y.n * (x.d \div g), (x.d \div g) * y.d)
    ELSE IF IsNaN(x) \/ IsNaN(y) THEN NaN
    ELSE IF IsFinite(x) THEN y
    ELSE IF IsFinite(y) THEN x
    ELSE IF x = y THEN x ELSE NaN

Sub(x, y) == Add(x, Neg(y))

\* x * y: Infinity * 0 is NaN.
Mul(x, y) ==
    IF IsFinite(x) /\ IsFinite(y)
    THEN LET g1 == GCD(Abs(x.n), y.d)
             g2 == GCD(Abs(y.n), x.d)
         IN  IF x.n = 0 \/ y.n = 0 THEN Zero
             ELSE Norm((x.n \div g1) * (y.n \div g2), (x.d \div g2) * (y.d \div g1))
    ELSE IF IsNaN(x) \/ IsNaN(y) \/ IsZero(x) \/ IsZero(y) THEN NaN
    ELSE [n |-> SignOf(x) * SignOf(y), d |-> 0]

\* x / y: a division by zero does not throw, it yields Infinity, -Infinity or NaN.
Div(x, y) ==
    IF IsNaN(x) \/ IsNaN(y) THEN NaN
    ELSE IF IsFinite(x) /\ IsFinite(y)
    THEN IF y.n = 0
         THEN (IF x.n = 0 THEN NaN ELSE [n |-> SignOf(x), d |-> 0])
         ELSE Mul(x, [n |-> Sgn(y.n) * y.d, d |-> Abs(y.n)])
    ELSE IF IsFinite(x) THEN Zero
    ELSE IF IsFinite(y) THEN [n |-> SignOf(x) * (IF y.n < 0 THEN -1 ELSE 1), d |-> 0]
    ELSE NaN

\* x < y; every comparison with NaN is false.
Lt(x, y) ==
    /\ ~IsNaN(x)
    /\ ~IsNaN(y)
    /\ IF IsFinite(x) /\ IsFinite(y) THEN x.n * y.d < y.n * x.d
       ELSE x # y /\ (x = NegInf \/ y = PosInf)

Gt(x, y) == Lt(y, x)
Ge(x, y) == ~IsNaN(x) /\ ~IsNaN(y) /\ ~Lt(x, y)
Le(x, y) == Ge(y, x)

\* x === y on numbers.
StrictEq(x, y) == ~IsNaN(x) /\ ~IsNaN(y) /\ x = y

\* Number.isInteger
IsInteger(x) == x.d = 1

\* The integer part of a finite number, towards zero.
Trunc(x) == Num(Sgn(x.n) * (Abs(x.n) \div x.d))

\* Math.ceil
Ceil(x) ==
    IF ~IsFinite(x) THEN x
    ELSE IF x.n % x.d = 0 THEN Num(x.n \div x.d)
    ELSE Num((x.n \div x.d) + 1)

\* Math.round: the nearest integer, halves upwards.
Round(x) ==
    IF ~IsFinite(x) THEN x ELSE Num((2 * x.n + x.d) \div (2 * x.d))

\* ------------------------------------------------------------- values

\* The one element of a singleton set: The({e(x) : x \in {v}}) is e with x
\* bound to the value of v, as a const declaration binds it.
The(S) == CHOOSE x \in S : TRUE

Null == [t |-> "null"]
NumV(x) == [t |-> "num", v |-> x]
Str(s) == [t |-> "str", s |-> s]

IsNull(v) == v.t = "null"
IsNum(v) == v.t = "num"
IsStr(v) == v.t = "str"

\* ToNumber of a value the code compares or multiplies: null counts as 0.
ToNum(v) == IF IsNum(v) THEN v.v ELSE IF IsNull(v) THEN Zero ELSE NaN

Digits == {"0", "1", "2", "3", "4", "5", "6", "7", "8", "9"}

DigitVal(c) ==
    CASE c = "0" -> 0 [] c = "1" -> 1 [] c = "2" -> 2 [] c = "3" -> 3
      [] c = "4" -> 4 [] c = "5" -> 5 [] c = "6" -> 6 [] c = "7" -> 7
      [] c = "8" -> 8 [] c = "9" -> 9

Drop(s, k) == SubSeq(s, k + 1, Len(s))

RECURSIVE SkipSpaces(_)
SkipSpaces(s) == IF s # <<>> /\ s[1] = " " THEN SkipSpaces(Tail(s)) ELSE s

\* Length of the longest prefix of s made of digits.
RECURSIVE DigitRun(_)
DigitRun(s) == IF s # <<>> /\ s[1] \in Digits THEN 1 + DigitRun(Tail(s)) ELSE 0

\* Value of a sequence of digits, acc being the value read so far.
RECURSIVE DigitsValue(_, _)
DigitsValue(s, acc) ==
    IF s = <<>> THEN acc ELSE DigitsValue(Tail(s), 10 * acc + DigitVal(s[1]))

RECURSIVE Pow10(_)
Pow10(k) == IF k = 0 THEN 1 ELSE 10 * Pow10(k - 1)

\* parseInt(s, 10) of a string: optional blanks, optional sign, then the
\* longest run of digits; NaN when there is no digit.
ParseIntStr(s) ==
    LET t == SkipSpaces(s)
        neg == t # <<>> /\ t[1] = "-"
        u == IF t # <<>> /\ t[1] \in {"-", "+"} THEN Tail(t) ELSE t
        k == DigitRun(u)
    IN  IF k = 0 THEN NaN
        ELSE Num((IF neg THEN -1 ELSE 1) * DigitsValue(SubSeq(u, 1, k), 0))

\* parseFloat(s) of a string without exponent part: optional blanks, optional
\* sign, then "Infinity" or digits, optional point and digits; NaN when no
\* digit is read.
ParseFloatStr(s) ==
    LET t == SkipSpaces(s)
        neg == t # <<>> /\ t[1] = "-"
        u == IF t # <<>> /\ t[1] \in {"-", "+"} THEN Tail(t) ELSE t
        infinity == Len(u) >= 8
                        /\ SubSeq(u, 1, 8) = <<"I", "n", "f", "i", "n", "i", "t", "y">>
        k == DigitRun(u)
        r == Drop(u, k)
        hasPoint == r # <<>> /\ r[1] = "."
        m == IF hasPoint THEN DigitRun(Tail(r)) ELSE 0
        ip == DigitsValue(SubSeq(u, 1, k), 0)
        fp == IF m = 0 THEN 0 ELSE DigitsValue(SubSeq(r, 2, m + 1), 0)
        mag == Add(Num(ip), Frac(fp, Pow10(m)))
    IN  IF infinity THEN (IF neg THEN NegInf ELSE PosInf)
        ELSE IF k = 0 /\ m = 0 THEN NaN
        ELSE IF neg THEN Neg(mag) ELSE mag

\* parseInt(value, 10): a number is first turned into its decimal string, so
\* its fraction is cut off; "Infinity" and "NaN" hold no digit.
parseInt(v) ==
    IF IsStr(v) THEN ParseIntStr(v.s)
    ELSE IF IsNum(v) THEN (IF IsFinite(v.v) THEN Trunc(v.v) ELSE NaN)
    ELSE NaN

\* parseFloat(value): a number comes back as it is.
parseFloat(v) ==
    IF IsStr(v) THEN ParseFloatStr(v.s)
    ELSE IF IsNum(v) THEN v.v
    ELSE NaN

DigitChar(k) == <<"0", "1", "2", "3", "4", "5", "6", "7", "8", "9">>[k + 1]

RECURSIVE NatDigits(_)
NatDigits(k) ==
    IF k < 10 THEN <<DigitChar(k)>> ELSE Append(NatDigits(k \div 10), DigitChar(k % 10))

\* The decimal digits of r/d (0 <= r < d) after the point, at most k of them.
RECURSIVE FracDigits(_, _, _)
FracDigits(r, d, k) ==
    IF r = 0 \/ k = 0 THEN <<>>
    ELSE <<DigitChar((10 * r) \div d)>> \o FracDigits((10 * r) % d, d, k - 1)

\* String(value): a string as it is; a number in decimal notation (the model's
\* numbers have short terminating expansions); null as "null".
JsString(v) ==
    IF IsStr(v) THEN v.s
    ELSE IF IsNull(v) THEN <<"n", "u", "l", "l">>
    ELSE IF IsNaN(v.v) THEN <<"N", "a", "N">>
    ELSE IF ~IsFinite(v.v)
    THEN (IF v.v.n < 0 THEN <<"-">> ELSE <<>>) \o <<"I", "n", "f", "i", "n", "i", "t", "y">>
    ELSE LET a == Abs(v.v.n)
             whole == NatDigits(a \div v.v.d)
             frac == FracDigits(a % v.v.d, v.v.d, 6)
         IN  (IF v.v.n < 0 THEN <<"-">> ELSE <<>>) \o whole
                \o (IF frac = <<>> THEN <<>> ELSE <<".">> \o frac)

\* --------------------------------------------------------- validation

IntegerFields == {"vehicleCount", "timeHorizonYears", "utilisationRampMonths"}

NumberFields ==
    {"annualKmPerVehicle", "fuelConsumptionLPer100km", "fuelPricePerLitre",
     "baselineAccidentsPerYear", "avgAccidentCost", "annualInsurancePremium",
     "fuelSavingsPct", "accidentReductionPct", "insuranceReductionPct",
     "adoptionPct", "hardwareCostPerVehicle", "subscriptionPerVehiclePerMonth",
     "implementationOneOff", "trainingOneOff", "discountRatePct",
     "resaleRecoveryPctHardware", "maintenancePerVehiclePerYear"}

NumericFields == IntegerFields \cup NumberFields

Fields == NumericFields \cup {"currency", "startMonth"}

EUR == <<"E", "U", "R">>
USD == <<"U", "S", "D">>
GBP == <<"G", "B", "P">>

Ranged(type, min, max) ==
    [type |-> type, hasRange |-> TRUE, min |-> min, max |-> max, allowedValues |-> {}]

\* The validation schema: type, closed range and allowed values of each field.
validationSchema ==
    [f \in Fields |->
        CASE f = "vehicleCount" -> Ranged("integer", Num(1), Num(10000))
          [] f = "annualKmPerVehicle" -> Ranged("number", Num(1000), Num(200000))
          [] f = "fuelConsumptionLPer100km" -> Ranged("number", Num(5), Num(50))
          [] f = "fuelPricePerLitre" -> Ranged("number", Frac(1, 2), Num(5))
          [] f = "baselineAccidentsPerYear" -> Ranged("number", Num(0), Num(1000))
          [] f = "avgAccidentCost" -> Ranged("number", Num(100), Num(100000))
          [] f = "annualInsurancePremium" -> Ranged("number", Num(1000), Num(10000000))
          [] f = "fuelSavingsPct" -> Ranged("number", Num(0), Num(50))
          [] f = "accidentReductionPct" -> Ranged("number", Num(0), Num(100))
          [] f = "insuranceReductionPct" -> Ranged("number", Num(0), Num(50))
          [] f = "adoptionPct" -> Ranged("number", Num(0), Num(100))
          [] f = "hardwareCostPerVehicle" -> Ranged("number", Num(0), Num(5000))
          [] f = "subscriptionPerVehiclePerMonth" -> Ranged("number", Num(0), Num(200))
          [] f = "implementationOneOff" -> Ranged("number", Num(0), Num(50000))
          [] f = "trainingOneOff" -> Ranged("number", Num(0), Num(50000))
          [] f = "timeHorizonYears" -> Ranged("integer", Num(1), Num(10))
          [] f = "discountRatePct" -> Ranged("number", Num(0), Num(20))
          [] f = "currency" ->
                [type |-> "string", hasRange |-> FALSE, min |-> Zero, max |-> Zero,
                 allowedValues |-> {EUR, USD, GBP}]
          [] f = "startMonth" ->
                [type |-> "date", hasRange |-> FALSE, min |-> Zero, max |-> Zero,
                 allowedValues |-> {}]
          [] f = "utilisationRampMonths" -> Ranged("integer", Num(0), Num(24))
          [] f = "resaleRecoveryPctHardware" -> Ranged("number", Num(0), Num(100))
          [] f = "maintenancePerVehiclePerYear" -> Ranged("number", Num(0), Num(1000))]

\* getCurrentMonth() on the day the page is opened.
CurrentMonth == Str(<<"2", "0", "2", "6", "-", "1", "1">>)

\* /^\d{4}-\d{2}$/
IsYearMonthText(s) ==
    /\ Len(s) = 7
    /\ \A i \in {1, 2, 3, 4, 6, 7} : s[i] \in Digits
    /\ s[5] = "-"

\* new Date(year, month - 1) read back with getFullYear() and getMonth(): the
\* month index carries into the year, and a year 0..99 counts from 1900.
DateFullYear(year, monthIndex) ==
    (IF year <= 99 THEN 1900 + year ELSE year)
        + (IF monthIndex < 0 THEN -1 ELSE monthIndex \div 12)

DateMonth(monthIndex) == IF monthIndex < 0 THEN monthIndex + 12 ELSE monthIndex % 12

\* The 'date' case of coerceValue: the text itself, or null.
coerceDate(value) ==
    IF IsStr(value) /\ IsYearMonthText(value.s)
    THEN LET year == DigitsValue(SubSeq(value.s, 1, 4), 0)
             month == DigitsValue(SubSeq(value.s, 6, 7), 0)
         IN  IF DateFullYear(year, month - 1) = year /\ DateMonth(month - 1) = month - 1
             THEN value ELSE Null
    ELSE Null

coerceInteger(value) ==
    LET intValue == parseInt(value) IN IF IsNaN(intValue) THEN Null ELSE NumV(intValue)

coerceNumber(value) ==
    LET numValue == parseFloat(value) IN IF IsNaN(numValue) THEN Null ELSE NumV(numValue)

\* coerceValue that puts 0 where a number cannot be parsed.
coerceValue_ZeroForUnparseable(value, type) ==
    IF IsNull(value) \/ value = Str(<<>>) THEN Null
    ELSE CASE type = "integer" ->
                (IF IsNaN(parseInt(value)) THEN NumV(Zero) ELSE NumV(parseInt(value)))
           [] type = "number" ->
                (IF IsNaN(parseFloat(value)) THEN NumV(Zero) ELSE NumV(parseFloat(value)))
           [] type = "string" -> Str(JsString(value))
           [] type = "date" -> coerceDate(value)

\* coerceValue(value, type): null for an empty, missing or unparseable value.
coerceValue(value, type) ==
    IF IsNull(value) \/ value = Str(<<>>) THEN Null
    ELSE CASE type = "integer" -> coerceInteger(value)
           [] type = "number" -> coerceNumber(value)
           [] type = "string" -> Str(JsString(value))
           [] type = "date" -> coerceDate(value)

NoError == [kind |-> "none"]
IsError(e) == e.kind # "none"

\* validateField without the upper-bound check.
validateField_NoMaxCheck(fieldName, value, schema) ==
    IF IsNull(value) \/ value = Str(<<>>)
    THEN [kind |-> "required", field |-> fieldName]
    ELSE IF schema.type = "integer" /\ ~(IsNum(value) /\ IsInteger(value.v))
    THEN [kind |-> "wholeNumber", field |-> fieldName]
    ELSE IF schema.type = "number" /\ ~IsNum(value)
    THEN [kind |-> "number", field |-> fieldName]
    ELSE IF schema.type = "string" /\ ~IsStr(value)
    THEN [kind |-> "text", field |-> fieldName]
    ELSE IF IsNum(value) /\ schema.hasRange /\ Lt(value.v, schema.min)
    THEN [kind |-> "atLeast", field |-> fieldName, bound |-> schema.min]
    ELSE IF schema.allowedValues # {} /\ ~(IsStr(value) /\ value.s \in schema.allowedValues)
    THEN [kind |-> "oneOf", field |-> fieldName, allowed |-> schema.allowedValues]
    ELSE NoError

\* validateField with an exclusive upper bound (>= in place of >).
validateField_ExclusiveMax(fieldName, value, schema) ==
    IF IsNull(value) \/ value = Str(<<>>)
    THEN [kind |-> "required", field |-> fieldName]
    ELSE IF schema.type = "integer" /\ ~(IsNum(value) /\ IsInteger(value.v))
    THEN [kind |-> "wholeNumber", field |-> fieldName]
    ELSE IF schema.type = "number" /\ ~IsNum(value)
    THEN [kind |-> "number", field |-> fieldName]
    ELSE IF schema.type = "string" /\ ~IsStr(value)
    THEN [kind |-> "text", field |-> fieldName]
    ELSE IF IsNum(value) /\ schema.hasRange /\ Lt(value.v, schema.min)
    THEN [kind |-> "atLeast", field |-> fieldName, bound |-> schema.min]
    ELSE IF IsNum(value) /\ schema.hasRange /\ Ge(value.v, schema.max)
    THEN [kind |-> "atMost", field |-> fieldName, bound |-> schema.max]
    ELSE IF schema.allowedValues # {} /\ ~(IsStr(value) /\ value.s \in schema.allowedValues)
    THEN [kind |-> "oneOf", field |-> fieldName, allowed |-> schema.allowedValues]
    ELSE NoError

\* validateField that checks the range before the type.
validateField_RangeBeforeType(fieldName, value, schema) ==
    IF IsNull(value) \/ value = Str(<<>>)
    THEN [kind |-> "required", field |-> fieldName]
    ELSE IF IsNum(value) /\ schema.hasRange /\ Lt(value.v, schema.min)
    THEN [kind |-> "atLeast", field |-> fieldName, bound |-> schema.min]
    ELSE IF IsNum(value) /\ schema.hasRange /\ Gt(value.v, schema.max)
    THEN [kind |-> "atMost", field |-> fieldName, bound |-> schema.max]
    ELSE IF schema.type = "integer" /\ ~(IsNum(value) /\ IsInteger(value.v))
    THEN [kind |-> "wholeNumber", field |-> fieldName]
    ELSE IF schema.type = "number" /\ ~IsNum(value)
    THEN [kind |-> "number", field |-> fieldName]
    ELSE IF schema.type = "string" /\ ~IsStr(value)
    THEN [kind |-> "text", field |-> fieldName]
    ELSE IF schema.allowedValues # {} /\ ~(IsStr(value) /\ value.s \in schema.allowedValues)
    THEN [kind |-> "oneOf", field |-> fieldName, allowed |-> schema.allowedValues]
    ELSE NoError

\* validateField(fieldName, value, schema): the message of the first failing
\* check, or NoError. A message is its kind with the field and bound it names.
validateField(fieldName, value, schema) ==
    IF IsNull(value) \/ value = Str(<<>>)
    THEN [kind |-> "required", field |-> fieldName]
    ELSE IF schema.type = "integer" /\ ~(IsNum(value) /\ IsInteger(value.v))
    THEN [kind |-> "wholeNumber", field |-> fieldName]
    ELSE IF schema.type = "number" /\ ~IsNum(value)
    THEN [kind |-> "number", field |-> fieldName]
    ELSE IF schema.type = "string" /\ ~IsStr(value)
    THEN [kind |-> "text", field |-> fieldName]
    ELSE IF IsNum(value) /\ schema.hasRange /\ Lt(value.v, schema.min)
    THEN [kind |-> "atLeast", field |-> fieldName, bound |-> schema.min]
    ELSE IF IsNum(value) /\ schema.hasRange /\ Gt(value.v, schema.max)
    THEN [kind |-> "atMost", field |-> fieldName, bound |-> schema.max]
    ELSE IF schema.allowedValues # {} /\ ~(IsStr(value) /\ value.s \in schema.allowedValues)
    THEN [kind |-> "oneOf", field |-> fieldName, allowed |-> schema.allowedValues]
    ELSE NoError

RampExceedsHorizon == [kind |-> "rampExceedsHorizon"]

\* The month of a YYYY-MM text counted from year 0, the order in which
\* new Date(year, month - 1) values compare.
YearMonthIndex(s) ==
    DigitsValue(SubSeq(s, 1, 4), 0) * 12 + DigitsValue(SubSeq(s, 6, 7), 0) - 1

\* The start-month check of validateCrossFields: startDate < currentMonth, the
\* case in which the warning is logged.
startMonthInPast(inputs) ==
    /\ IsStr(inputs["startMonth"])
    /\ IsYearMonthText(inputs["startMonth"].s)
    /\ YearMonthIndex(inputs["startMonth"].s) < YearMonthIndex(CurrentMonth.s)

\* The ramp rule of validateCrossFields: the comparison of line 276.
rampExceedsHorizon(inputs) ==
    Gt(ToNum(inputs["utilisationRampMonths"]),
       Mul(ToNum(inputs["timeHorizonYears"]), Num(12)))

\* validateCrossFields that puts the ramp error on the horizon field.
validateCrossFields_ErrorOnHorizon(inputs) ==
    IF rampExceedsHorizon(inputs)
    THEN [f \in {"timeHorizonYears"} |-> RampExceedsHorizon]
    ELSE [f \in {} |-> RampExceedsHorizon]

\* validateCrossFields that turns the start-month warning into an error.
validateCrossFields_PastMonthIsError(inputs) ==
    [f \in (IF rampExceedsHorizon(inputs) THEN {"utilisationRampMonths"} ELSE {})
            \cup (IF startMonthInPast(inputs) THEN {"startMonth"} ELSE {}) |->
        IF f = "startMonth" THEN [kind |-> "startMonthInPast"] ELSE RampExceedsHorizon]

\* validateCrossFields(inputs): the ramp must not exceed the horizon in months.
\* The start-month check only logs a warning and adds no error.
validateCrossFields(inputs) ==
    IF rampExceedsHorizon(inputs)
    THEN [f \in {"utilisationRampMonths"} |-> RampExceedsHorizon]
    ELSE [f \in {} |-> RampExceedsHorizon]

\* The loop of validateInputs, first half: every field of the schema coerced.
coerceInputs(rawInputs) ==
    [f \in Fields |-> coerceValue(rawInputs[f], validationSchema[f].type)]

\* The loop of validateInputs, second half: validateField on every coerced value.
fieldErrors(coercedInputs) ==
    [f \in Fields |-> validateField(f, coercedInputs[f], validationSchema[f])]

\* The errors object: the failed fields, then Object.assign(errors, crossFieldErrors).
collectErrors(fieldError, crossFieldErrors) ==
    [f \in {g \in Fields : IsError(fieldError[g])} \cup DOMAIN crossFieldErrors |->
        IF f \in DOMAIN crossFieldErrors THEN crossFieldErrors[f] ELSE fieldError[f]]

\* validateInputs whose isValid flag is not cleared by cross-field errors.
validationResult_IgnoresCrossFieldErrors(coercedInputs, fieldError, crossFieldErrors) ==
    [isValid |-> \A f \in Fields : ~IsError(fieldError[f]),
     errors |-> collectErrors(fieldError, crossFieldErrors),
     coercedInputs |-> coercedInputs]

\* The record validateInputs returns.
validationResult(coercedInputs, fieldError, crossFieldErrors) ==
    [isValid |-> (\A f \in Fields : ~IsError(fieldError[f])) /\ DOMAIN crossFieldErrors = {},
     errors |-> collectErrors(fieldError, crossFieldErrors),
     coercedInputs |-> coercedInputs]

\* validateInputs(rawInputs): {isValid, errors, coercedInputs}.
validateInputs(rawInputs) ==
    The({validationResult(coercedInputs, fieldErrors(coercedInputs),
                          validateCrossFields(coercedInputs)) :
            coercedInputs \in {coerceInputs(rawInputs)}})

\* -------------------------------------------------- scenario adjuster

\* A string the code only compares as a whole, such as a scenario name.
Text(name) == [t |-> "str", s |-> name]

IsText(v, name) == IsStr(v) /\ v.s = name

\* x *= factor on a field of the copy.
Scaled(inputs, f, factor) == NumV(Mul(ToNum(inputs[f]), factor))

\* applyScenario whose default case scales like 'conservative'.
applyScenario_UnknownIsConservative(inputs, scenario) ==
    IF IsText(scenario, "aggressive")
    THEN [inputs EXCEPT !["fuelSavingsPct"] = Scaled(inputs, "fuelSavingsPct", Frac(5, 4)),
                        !["accidentReductionPct"] = Scaled(inputs, "accidentReductionPct", Frac(5, 4)),
                        !["insuranceReductionPct"] = Scaled(inputs, "insuranceReductionPct", Frac(5, 4))]
    ELSE IF IsText(scenario, "base") THEN inputs
    ELSE [inputs EXCEPT !["fuelSavingsPct"] = Scaled(inputs, "fuelSavingsPct", Frac(3, 4)),
                        !["accidentReductionPct"] = Scaled(inputs, "accidentReductionPct", Frac(3, 4)),
                        !["insuranceReductionPct"] = Scaled(inputs, "insuranceReductionPct", Frac(3, 4))]

\* applyScenario whose 'aggressive' case leaves the insurance reduction alone.
applyScenario_TwoFields(inputs, scenario) ==
    IF IsText(scenario, "conservative")
    THEN [inputs EXCEPT !["fuelSavingsPct"] = Scaled(inputs, "fuelSavingsPct", Frac(3, 4)),
                        !["accidentReductionPct"] = Scaled(inputs, "accidentReductionPct", Frac(3, 4)),
                        !["insuranceReductionPct"] = Scaled(inputs, "insuranceReductionPct", Frac(3, 4))]
    ELSE IF IsText(scenario, "aggressive")
    THEN [inputs EXCEPT !["fuelSavingsPct"] = Scaled(inputs, "fuelSavingsPct", Frac(5, 4)),
                        !["accidentReductionPct"] = Scaled(inputs, "accidentReductionPct", Frac(5, 4))]
    ELSE inputs

\* applyScenario(inputs, scenario): a copy with the three effect percentages
\* scaled; 'base' and every other value change nothing.
applyScenario(inputs, scenario) ==
    IF IsText(scenario, "conservative")
    THEN [inputs EXCEPT !["fuelSavingsPct"] = Scaled(inputs, "fuelSavingsPct", Frac(3, 4)),
                        !["accidentReductionPct"] = Scaled(inputs, "accidentReductionPct", Frac(3, 4)),
                        !["insuranceReductionPct"] = Scaled(inputs, "insuranceReductionPct", Frac(3, 4))]
    ELSE IF IsText(scenario, "aggressive")
    THEN [inputs EXCEPT !["fuelSavingsPct"] = Scaled(inputs, "fuelSavingsPct", Frac(5, 4)),
                        !["accidentReductionPct"] = Scaled(inputs, "accidentReductionPct", Frac(5, 4)),
                        !["insuranceReductionPct"] = Scaled(inputs, "insuranceReductionPct", Frac(5, 4))]
    ELSE inputs

\* applyScenario with modifiedInputs = inputs in place of the spread copy:
\* the assignments reach the caller's object.
applyScenarioCall_SharedObject(inputs, scenario) ==
    [inputs |-> applyScenario(inputs, scenario),
     modifiedInputs |-> applyScenario(inputs, scenario)]

\* One call of applyScenario as the caller sees it: its own inputs object
\* after the call, and the object returned. Line 310 copies the fields into
\* a new object and every assignment goes to the copy.
applyScenarioCall(inputs, scenario) ==
    [inputs |-> inputs, modifiedInputs |-> applyScenario(inputs, scenario)]

\* ------------------------------------------------- calculation engine

\* A numeric field of the inputs as the arithmetic reads it.
In(inputs, f) == ToNum(inputs[f])

Pct(x) == Div(x, Num(100))

\* calculateBaselineFuelCost that takes the consumption per km, not per 100 km.
calculateBaselineFuelCost_PerKm(inputs) ==
    Mul(Mul(Mul(In(inputs, "vehicleCount"), In(inputs, "annualKmPerVehicle")),
            In(inputs, "fuelConsumptionLPer100km")),
        In(inputs, "fuelPricePerLitre"))

calculateBaselineFuelCost(inputs) ==
    LET baselineLitres ==
            Mul(Mul(In(inputs, "vehicleCount"), In(inputs, "annualKmPerVehicle")),
                Pct(In(inputs, "fuelConsumptionLPer100km")))
    IN  Mul(baselineLitres, In(inputs, "fuelPricePerLitre"))

calculateFuelSavings(inputs, baselineFuelCost) ==
    Mul(Mul(baselineFuelCost, Pct(In(inputs, "fuelSavingsPct"))),
        Pct(In(inputs, "adoptionPct")))

calculateAccidentSavings(inputs) ==
    LET accidentsAvoided ==
            Mul(Mul(In(inputs, "baselineAccidentsPerYear"),
                    Pct(In(inputs, "accidentReductionPct"))),
                Pct(In(inputs, "adoptionPct")))
    IN  Mul(accidentsAvoided, In(inputs, "avgAccidentCost"))

calculateInsuranceSavings(inputs) ==
    Mul(Mul(In(inputs, "annualInsurancePremium"), Pct(In(inputs, "insuranceReductionPct"))),
        Pct(In(inputs, "adoptionPct")))

calculateTotalSavings(fuelSavings, accidentSavings, insuranceSavings) ==
    Add(Add(fuelSavings, accidentSavings), insuranceSavings)

calculateProgramCosts(inputs) ==
    [capexHardware |-> Mul(In(inputs, "vehicleCount"), In(inputs, "hardwareCostPerVehicle")),
     opexSubscriptionAnnual |->
        Mul(Mul(In(inputs, "vehicleCount"), In(inputs, "subscriptionPerVehiclePerMonth")),
            Num(12)),
     oneOff |-> Add(In(inputs, "implementationOneOff"), In(inputs, "trainingOneOff")),
     maintenanceAnnual |->
        Mul(In(inputs, "vehicleCount"), In(inputs, "maintenancePerVehiclePerYear"))]

\* The ramp factor counted from 0: i / utilisationRampMonths.
rampFactor_FromZero(i, utilisationRampMonths) ==
    IF Lt(Num(i), utilisationRampMonths)
    THEN Div(Num(i), utilisationRampMonths)
    ELSE Num(1)

\* The ramp factor without the i < utilisationRampMonths guard.
rampFactor_Unguarded(i, utilisationRampMonths) ==
    IF Le(Num(i), utilisationRampMonths)
    THEN Div(Num(i + 1), utilisationRampMonths)
    ELSE Num(1)

\* The ramp factor of month index i.
rampFactor(i, utilisationRampMonths) ==
    IF Lt(Num(i), utilisationRampMonths)
    THEN Div(Num(i + 1), utilisationRampMonths)
    ELSE Num(1)

\* The savings of month index i.
monthlySavings(inputs, savings, i) ==
    Mul(Div(savings.totalSavingsAnnual, Num(12)),
        rampFactor(i, In(inputs, "utilisationRampMonths")))

\* The costs of a month with the hardware and one-off costs charged every month.
monthlyCosts_OutlayEveryMonth(inputs, costs, i) ==
    IF StrictEq(Num(i), Sub(Mul(In(inputs, "timeHorizonYears"), Num(12)), Num(1)))
        /\ Gt(In(inputs, "resaleRecoveryPctHardware"), Zero)
    THEN Sub(Add(Add(Div(costs.opexSubscriptionAnnual, Num(12)),
                     Div(costs.maintenanceAnnual, Num(12))),
                 Add(costs.capexHardware, costs.oneOff)),
             Mul(costs.capexHardware, Pct(In(inputs, "resaleRecoveryPctHardware"))))
    ELSE Add(Add(Div(costs.opexSubscriptionAnnual, Num(12)),
                 Div(costs.maintenanceAnnual, Num(12))),
             Add(costs.capexHardware, costs.oneOff))

\* The costs of month index i: the running costs, the one-off costs in the
\* first month, less the hardware resale in the last month.
monthlyCosts(inputs, costs, i) ==
    LET totalMonths == Mul(In(inputs, "timeHorizonYears"), Num(12))
        resale == In(inputs, "resaleRecoveryPctHardware")
        running == Add(Div(costs.opexSubscriptionAnnual, Num(12)),
                       Div(costs.maintenanceAnnual, Num(12)))
        first == IF i = 0
                 THEN Add(running, Add(costs.capexHardware, costs.oneOff))
                 ELSE running
    IN  IF StrictEq(Num(i), Sub(totalMonths, Num(1))) /\ Gt(resale, Zero)
        THEN Sub(first, Mul(costs.capexHardware, Pct(resale)))
        ELSE first

EmptyTimeline ==
    [months |-> <<>>, savingsMonthly |-> <<>>, costsMonthly |-> <<>>,
     netMonthly |-> <<>>, cumNetMonthly |-> <<>>]

\* The loop of calculateTimeline from month index i on, cumulativeNet being
\* the running total and tl the arrays filled so far.
RECURSIVE timelineLoop(_, _, _, _, _, _)
timelineLoop(inputs, savings, costs, i, cumulativeNet, tl) ==
    IF ~Lt(Num(i), Mul(In(inputs, "timeHorizonYears"), Num(12)))
    THEN tl
    ELSE LET sav == monthlySavings(inputs, savings, i)
             cost == monthlyCosts(inputs, costs, i)
             netFlow == Sub(sav, cost)
             cum == Add(cumulativeNet, netFlow)
         IN  timelineLoop(inputs, savings, costs, i + 1, cum,
                [months |-> Append(tl.months, i + 1),
                 savingsMonthly |-> Append(tl.savingsMonthly, sav),
                 costsMonthly |-> Append(tl.costsMonthly, cost),
                 netMonthly |-> Append(tl.netMonthly, netFlow),
                 cumNetMonthly |-> Append(tl.cumNetMonthly, cum)])

\* calculateTimeline whose accumulator starts at the initial outlay, which
\* the first month then counts again.
calculateTimeline_PreloadedAccumulator(inputs, savings, costs) ==
    timelineLoop(inputs, savings, costs, 0, Neg(costs.capexHardware), EmptyTimeline)

\* calculateTimeline whose loop starts at the second month.
calculateTimeline_SkipsFirstMonth(inputs, savings, costs) ==
    timelineLoop(inputs, savings, costs, 1, Zero, EmptyTimeline)

\* calculateTimeline(inputs, savings, costs); the accumulator starts at 0.
calculateTimeline(inputs, savings, costs) ==
    timelineLoop(inputs, savings, costs, 0, Zero, EmptyTimeline)

RECURSIVE paybackLoop(_, _)
paybackLoop(cumNetMonthly, i) ==
    IF i > Len(cumNetMonthly) THEN Len(cumNetMonthly)
    ELSE IF Ge(cumNetMonthly[i], Zero) THEN i
    ELSE paybackLoop(cumNetMonthly, i + 1)

\* calculatePayback returning the 0-based index of the first month (i for i + 1).
calculatePayback_ZeroIndexed(cumNetMonthly) ==
    IF \E m \in 1..Len(cumNetMonthly) : Ge(cumNetMonthly[m], Zero)
    THEN paybackLoop(cumNetMonthly, 1) - 1
    ELSE Len(cumNetMonthly)

\* calculatePayback(cumNetMonthly): the 1-indexed first month with a
\* cumulative net >= 0, or the number of months when there is none.
calculatePayback(cumNetMonthly) == paybackLoop(cumNetMonthly, 1)

\* calculateSimpleROI without the zero-cost guard.
calculateSimpleROI_Unguarded(totalSavings, totalCosts) ==
    Mul(Div(Sub(totalSavings, totalCosts), totalCosts), Num(100))

\* calculateSimpleROI(totalSavings, totalCosts): 0 when the total cost is 0.
calculateSimpleROI(totalSavings, totalCosts) ==
    IF StrictEq(totalCosts, Zero) THEN Zero
    ELSE Mul(Div(Sub(totalSavings, totalCosts), totalCosts), Num(100))

\* The annual savings calculateROI computes first.
annualSavings(inputs) ==
    The({[baselineFuelCost |-> baselineFuelCost,
          fuelSavingsAnnual |-> fuelSavingsAnnual,
          accidentSavingsAnnual |-> accidentSavingsAnnual,
          insuranceSavingsAnnual |-> insuranceSavingsAnnual,
          totalSavingsAnnual |->
              calculateTotalSavings(fuelSavingsAnnual, accidentSavingsAnnual,
                                    insuranceSavingsAnnual)] :
            baselineFuelCost \in {calculateBaselineFuelCost(inputs)},
            fuelSavingsAnnual \in
                {calculateFuelSavings(inputs, calculateBaselineFuelCost(inputs))},
            accidentSavingsAnnual \in {calculateAccidentSavings(inputs)},
            insuranceSavingsAnnual \in {calculateInsuranceSavings(inputs)}})

\* totalCosts and totalSavings of calculateROI.
totalCosts(inputs, costs) ==
    Add(Add(costs.capexHardware, costs.oneOff),
        Mul(Add(costs.opexSubscriptionAnnual, costs.maintenanceAnnual),
            In(inputs, "timeHorizonYears")))

totalSavings(inputs, totalSavingsAnnual) ==
    Mul(totalSavingsAnnual, In(inputs, "timeHorizonYears"))

\* The record calculateROI returns.
calculationOutputs(inputs, savings, costs, timeline) ==
    [threw |-> FALSE,
     baselineFuelCost |-> savings.baselineFuelCost,
     fuelSavingsAnnual |-> savings.fuelSavingsAnnual,
     accidentSavingsAnnual |-> savings.accidentSavingsAnnual,
     insuranceSavingsAnnual |-> savings.insuranceSavingsAnnual,
     totalSavingsAnnual |-> savings.totalSavingsAnnual,
     capexHardware |-> costs.capexHardware,
     opexSubscriptionAnnual |-> costs.opexSubscriptionAnnual,
     oneOff |-> costs.oneOff,
     maintenanceAnnual |-> costs.maintenanceAnnual,
     timeline |-> timeline,
     paybackMonths |-> calculatePayback(timeline.cumNetMonthly),
     roiSimplePct |-> calculateSimpleROI(totalSavings(inputs, savings.totalSavingsAnnual),
                                         totalCosts(inputs, costs))]

\* The timeline and the financial metrics of calculateROI.
financialMetrics(inputs, savings, costs) ==
    The({calculationOutputs(inputs, savings, costs, timeline) :
            timeline \in {calculateTimeline(inputs,
                            [totalSavingsAnnual |-> savings.totalSavingsAnnual], costs)}})

\* The result of the last call of calculateROI, or Null.
VARIABLE results

\* calculateROI whose running total is kept between calls: the timeline of a
\* call starts from the last cumulative net of the call before.
calculateROI_KeepsAccumulator(inputs) ==
    IF ~IsStr(inputs["startMonth"]) THEN [threw |-> TRUE]
    ELSE The({calculationOutputs(inputs, savings, costs, timeline) :
                timeline \in
                    {timelineLoop(inputs,
                        [totalSavingsAnnual |-> annualSavings(inputs).totalSavingsAnnual],
                        calculateProgramCosts(inputs), 0,
                        IF results = Null \/ results.threw THEN Zero
                        ELSE results.timeline.cumNetMonthly[Len(results.timeline.cumNetMonthly)],
                        EmptyTimeline)},
                savings \in {annualSavings(inputs)},
                costs \in {calculateProgramCosts(inputs)}})

\* calculateROI(inputs): the results record. startMonth.split throws when the
\* start month is no string; threw records that.
calculateROI(inputs) ==
    IF ~IsStr(inputs["startMonth"]) THEN [threw |-> TRUE]
    ELSE The({financialMetrics(inputs, savings, costs) :
                savings \in {annualSavings(inputs)},
                costs \in {calculateProgramCosts(inputs)}})

\* ------------------------------------------- straight-line calculators

\* The fields of `defaults` in src/simple-calc.js; the backup calculator adds
\* the hardware cost and simple-state.js the discount rate.
SimpleFields ==
    {"vehicleCount", "annualKmPerVehicle", "fuelConsumptionLPer100km", "fuelPricePerLitre",
     "baselineAccidentsPerYear", "avgAccidentCost", "annualInsurancePremium",
     "fuelSavingsPct", "accidentReductionPct", "insuranceReductionPct", "adoptionPct",
     "subscriptionPerVehiclePerMonth", "implementationOneOff", "trainingOneOff",
     "timeHorizonYears", "currency"}

\* `defaults` of src/simple-calc.js.
defaults ==
    [f \in SimpleFields |->
        CASE f = "vehicleCount" -> NumV(Num(50))
          [] f = "annualKmPerVehicle" -> NumV(Num(45000))
          [] f = "fuelConsumptionLPer100km" -> NumV(Frac(21, 2))
          [] f = "fuelPricePerLitre" -> NumV(Frac(19, 10))
          [] f = "baselineAccidentsPerYear" -> NumV(Num(12))
          [] f = "avgAccidentCost" -> NumV(Num(6500))
          [] f = "annualInsurancePremium" -> NumV(Num(120000))
          [] f = "fuelSavingsPct" -> NumV(Num(6))
          [] f = "accidentReductionPct" -> NumV(Num(30))
          [] f = "insuranceReductionPct" -> NumV(Num(8))
          [] f = "adoptionPct" -> NumV(Num(90))
          [] f = "subscriptionPerVehiclePerMonth" -> NumV(Num(35))
          [] f = "implementationOneOff" -> NumV(Num(2500))
          [] f = "trainingOneOff" -> NumV(Num(1500))
          [] f = "timeHorizonYears" -> NumV(Num(3))
          [] f = "currency" -> Str(EUR)]

\* `defaults` of the backup simple-calc.js: the same with the hardware cost.
backupDefaults ==
    [f \in SimpleFields \cup {"hardwareCostPerVehicle"} |->
        IF f = "hardwareCostPerVehicle" THEN NumV(Num(350)) ELSE defaults[f]]

\* defaultInputs of simple-state.js.
simpleDefaultInputs ==
    [f \in DOMAIN backupDefaults \cup {"discountRatePct"} |->
        IF f = "discountRatePct" THEN NumV(Num(8)) ELSE backupDefaults[f]]

\* { ...base, ...overrides }
merge(base, overrides) ==
    [f \in DOMAIN base \cup DOMAIN overrides |->
        IF f \in DOMAIN overrides THEN overrides[f] ELSE base[f]]

\* A property of an object as a number: undefined (no such key) is NaN.
Prop(data, f) == IF f \in DOMAIN data THEN ToNum(data[f]) ELSE NaN

\* The annual savings, the same lines in the three calculators.
simpleTotalSavingsAnnual(data) ==
    Add(Add(Mul(Mul(Mul(Mul(Mul(Prop(data, "vehicleCount"), Prop(data, "annualKmPerVehicle")),
                            Pct(Prop(data, "fuelConsumptionLPer100km"))),
                        Prop(data, "fuelPricePerLitre")),
                    Pct(Prop(data, "fuelSavingsPct"))),
                Pct(Prop(data, "adoptionPct"))),
            Mul(Mul(Mul(Prop(data, "baselineAccidentsPerYear"),
                        Pct(Prop(data, "accidentReductionPct"))),
                    Pct(Prop(data, "adoptionPct"))),
                Prop(data, "avgAccidentCost"))),
        Mul(Mul(Prop(data, "annualInsurancePremium"), Pct(Prop(data, "insuranceReductionPct"))),
            Pct(Prop(data, "adoptionPct"))))

simpleSubscriptionAnnual(data) ==
    Mul(Mul(Prop(data, "vehicleCount"), Prop(data, "subscriptionPerVehiclePerMonth")), Num(12))

simpleOneOffCosts(data) ==
    Add(Prop(data, "implementationOneOff"), Prop(data, "trainingOneOff"))

simpleHardwareCost(data) ==
    Mul(Prop(data, "vehicleCount"), Prop(data, "hardwareCostPerVehicle"))

\* monthlySavings - monthlyCosts.
simpleNetMonthly(data) ==
    Sub(Div(simpleTotalSavingsAnnual(data), Num(12)),
        Div(simpleSubscriptionAnnual(data), Num(12)))

\* ((totalSavings - totalCosts) / totalCosts) * 100 over the horizon, the
\* total costs being initialCosts + subscriptionAnnual * years.
simpleROI(data, initialCosts) ==
    Mul(Div(Sub(Mul(simpleTotalSavingsAnnual(data), Prop(data, "timeHorizonYears")),
                Add(initialCosts,
                    Mul(simpleSubscriptionAnnual(data), Prop(data, "timeHorizonYears")))),
            Add(initialCosts,
                Mul(simpleSubscriptionAnnual(data), Prop(data, "timeHorizonYears")))),
        Num(100))

\* calculate of src/simple-calc.js on the merged data: no hardware cost, and
\* null for the payback when the net monthly savings are not positive.
calculateFrom(data) ==
    [totalSavingsAnnual |-> simpleTotalSavingsAnnual(data),
     roiSimplePct |-> simpleROI(data, simpleOneOffCosts(data)),
     paybackMonths |->
        IF Gt(simpleNetMonthly(data), Zero)
        THEN NumV(Ceil(Div(simpleOneOffCosts(data), simpleNetMonthly(data))))
        ELSE Null]

calculate(inputs) == calculateFrom(merge(defaults, inputs))

\* calculate of the backup simple-calc.js on the merged data.
backupCalculateFrom(data) ==
    [totalSavingsAnnual |-> simpleTotalSavingsAnnual(data),
     roiSimplePct |-> simpleROI(data, Add(simpleHardwareCost(data), simpleOneOffCosts(data))),
     paybackMonths |->
        NumV(Ceil(Div(Add(simpleHardwareCost(data), simpleOneOffCosts(data)),
                      simpleNetMonthly(data))))]

backupCalculate(inputs) == backupCalculateFrom(merge(backupDefaults, inputs))

\* calculateROI of simple-formulas.js: the inputs are used as they are.
simpleCalculateROI(inputs) ==
    [totalSavingsAnnual |-> simpleTotalSavingsAnnual(inputs),
     roiSimplePct |->
        simpleROI(inputs, Add(simpleHardwareCost(inputs), simpleOneOffCosts(inputs))),
     paybackMonths |->
        NumV(Ceil(Div(Add(simpleHardwareCost(inputs), simpleOneOffCosts(inputs)),
                      simpleNetMonthly(inputs))))]

\* The overrides the calculators are called with: none, and subscription,
\* adoption, one-off and hardware costs that make the net monthly savings
\* positive, zero and negative, with and without initial costs.
NoOverrides == [f \in {} |-> Null]

SimpleOverrides ==
    {NoOverrides} \cup
    {[f \in {"subscriptionPerVehiclePerMonth", "adoptionPct", "implementationOneOff",
              "trainingOneOff", "hardwareCostPerVehicle"} |->
        CASE f = "subscriptionPerVehiclePerMonth" -> NumV(Num(sub))
          [] f = "adoptionPct" -> NumV(Num(adoption))
          [] f = "implementationOneOff" -> NumV(Num(oneOff))
          [] f = "trainingOneOff" -> NumV(Num(0))
          [] f = "hardwareCostPerVehicle" -> NumV(Num(hw))] :
        sub \in {0, 35, 100}, adoption \in {0, 90}, oneOff \in {0, 4000}, hw \in {0, 350}}

SimpleVariants == {"calculate", "backupCalculate", "simpleCalculateROI"}

\* The record a variant computes from: the defaults merged with the call's
\* inputs, or for simple-formulas.js the application's inputs, which start
\* as defaultInputs of simple-state.js.
SimpleData(variant, inputs) ==
    CASE variant = "calculate" -> merge(defaults, inputs)
      [] variant = "backupCalculate" -> merge(backupDefaults, inputs)
      [] variant = "simpleCalculateROI" -> merge(simpleDefaultInputs, inputs)

\* ------------------------------------------------------ sampled inputs

\* Largest time horizon (years) and largest utilisation ramp (months) of the
\* records the engine is run on.
MaxHorizon == 2
MaxRamp == 3

C(chars) == Str(chars)

\* defaultInputs of state.js.
defaultInputs ==
    [f \in Fields |->
        CASE f = "vehicleCount" -> NumV(Num(50))
          [] f = "annualKmPerVehicle" -> NumV(Num(45000))
          [] f = "fuelConsumptionLPer100km" -> NumV(Frac(21, 2))
          [] f = "fuelPricePerLitre" -> NumV(Frac(19, 10))
          [] f = "baselineAccidentsPerYear" -> NumV(Num(12))
          [] f = "avgAccidentCost" -> NumV(Num(6500))
          [] f = "annualInsurancePremium" -> NumV(Num(120000))
          [] f = "fuelSavingsPct" -> NumV(Num(6))
          [] f = "accidentReductionPct" -> NumV(Num(30))
          [] f = "insuranceReductionPct" -> NumV(Num(8))
          [] f = "adoptionPct" -> NumV(Num(90))
          [] f = "hardwareCostPerVehicle" -> NumV(Num(350))
          [] f = "subscriptionPerVehiclePerMonth" -> NumV(Num(35))
          [] f = "implementationOneOff" -> NumV(Num(2500))
          [] f = "trainingOneOff" -> NumV(Num(1500))
          [] f = "timeHorizonYears" -> NumV(Num(3))
          [] f = "discountRatePct" -> NumV(Num(8))
          [] f = "currency" -> Str(EUR)
          [] f = "startMonth" -> CurrentMonth
          [] f = "utilisationRampMonths" -> NumV(Num(2))
          [] f = "resaleRecoveryPctHardware" -> NumV(Num(0))
          [] f = "maintenancePerVehiclePerYear" -> NumV(Num(0))]

\* A record every field of which is valid: a fleet with 120 a year of savings
\* at full adoption (fuel 10, accidents 30, insurance 80) and no costs.
BaseInputs ==
    [f \in Fields |->
        CASE f = "vehicleCount" -> NumV(Num(2))
          [] f = "annualKmPerVehicle" -> NumV(Num(1000))
          [] f = "fuelConsumptionLPer100km" -> NumV(Num(5))
          [] f = "fuelPricePerLitre" -> NumV(Num(1))
          [] f = "baselineAccidentsPerYear" -> NumV(Num(1))
          [] f = "avgAccidentCost" -> NumV(Num(100))
          [] f = "annualInsurancePremium" -> NumV(Num(1000))
          [] f = "fuelSavingsPct" -> NumV(Num(10))
          [] f = "accidentReductionPct" -> NumV(Num(30))
          [] f = "insuranceReductionPct" -> NumV(Num(8))
          [] f = "adoptionPct" -> NumV(Num(100))
          [] f = "hardwareCostPerVehicle" -> NumV(Num(0))
          [] f = "subscriptionPerVehiclePerMonth" -> NumV(Num(0))
          [] f = "implementationOneOff" -> NumV(Num(0))
          [] f = "trainingOneOff" -> NumV(Num(0))
          [] f = "timeHorizonYears" -> NumV(Num(1))
          [] f = "discountRatePct" -> NumV(Num(8))
          [] f = "currency" -> Str(EUR)
          [] f = "startMonth" -> C(<<"2", "0", "2", "4", "-", "0", "5">>)
          [] f = "utilisationRampMonths" -> NumV(Num(0))
          [] f = "resaleRecoveryPctHardware" -> NumV(Num(0))
          [] f = "maintenancePerVehiclePerYear" -> NumV(Num(0))]

\* Valid records that spread the engine over its cases: ramp or none, resale
\* or none, no costs at all, costs above the savings, no savings.
EngineSamples ==
    {[BaseInputs EXCEPT !["timeHorizonYears"] = NumV(Num(h)),
                        !["utilisationRampMonths"] = NumV(Num(r)),
                        !["resaleRecoveryPctHardware"] = NumV(Num(resale)),
                        !["hardwareCostPerVehicle"] = NumV(Num(hw)),
                        !["subscriptionPerVehiclePerMonth"] = NumV(Num(sub)),
                        !["implementationOneOff"] = NumV(Num(impl)),
                        !["adoptionPct"] = NumV(Num(adoption)),
                        !["fuelSavingsPct"] = NumV(Num(fuel))] :
        h \in 1..MaxHorizon, r \in 0..MaxRamp, resale \in {0, 100}, hw \in {0, 50},
        sub \in {0, 1, 10}, impl \in {0, 20}, adoption \in {0, 100}, fuel \in {10, 50}}

\* Raw values tried on a numeric field: absent, empty, text, the bounds and
\* their neighbours, fractions, digits as text, non-finite numbers.
NumericSamples(f) ==
    LET min == validationSchema[f].min
        max == validationSchema[f].max
        step == IF f \in IntegerFields THEN Num(1) ELSE Frac(1, 2)
    IN  {Null, Str(<<>>), C(<<"a", "b", "c">>), C(<<"3", ".", "5">>),
         C(<<" ", "7", "x">>), C(<<"-", "1">>),
         NumV(min), NumV(max), NumV(Sub(min, step)), NumV(Add(max, step)),
         NumV(Add(min, Frac(1, 2))), NumV(Add(max, Frac(1, 2))),
         Str(JsString(NumV(max))), Str(JsString(NumV(Add(max, Num(1))))),
         NumV(PosInf), NumV(NaN)}

CurrencySamples ==
    {Null, Str(<<>>), Str(EUR), Str(USD), Str(GBP), C(<<"J", "P", "Y">>),
     C(<<"e", "u", "r">>), NumV(Num(5))}

StartMonthSamples ==
    {Null, Str(<<>>), NumV(Num(2024)),
     C(<<"2", "0", "2", "4", "-", "0", "1">>), C(<<"2", "0", "2", "4", "-", "1", "2">>),
     C(<<"2", "0", "2", "4", "-", "0", "0">>), C(<<"2", "0", "2", "4", "-", "1", "3">>),
     C(<<"0", "0", "5", "0", "-", "0", "5">>), C(<<"2", "0", "2", "4", "-", "5">>),
     C(<<"2", "0", "2", "4", "/", "0", "5">>), C(<<"2", "0", "2", "4", "-", "0", "5", "-", "0", "1">>),
     CurrentMonth, C(<<"2", "0", "2", "7", "-", "0", "3">>)}

RawSamples(f) ==
    IF f \in NumericFields THEN NumericSamples(f)
    ELSE IF f = "currency" THEN CurrencySamples
    ELSE StartMonthSamples

\* The base record with one field replaced by each of its samples.
FieldSamples == UNION {{[BaseInputs EXCEPT ![f] = v] : v \in RawSamples(f)} : f \in Fields}

\* The base record with horizon and ramp on both sides of the cross-field
\* rule, starting in a past month and in a coming one.
CrossSamples ==
    {[BaseInputs EXCEPT !["timeHorizonYears"] = h, !["utilisationRampMonths"] = r,
                        !["startMonth"] = m] :
        h \in {Null, NumV(Num(0)), NumV(Num(1)), NumV(Num(2)), NumV(Num(10))},
        r \in {Null, NumV(Num(-1)), NumV(Num(12)), NumV(Num(13)), NumV(Num(24)),
               NumV(Num(25))},
        m \in {C(<<"2", "0", "2", "4", "-", "0", "5">>), C(<<"2", "0", "2", "7", "-", "0", "3">>)}}

\* The records validateInputs is run on; defaultInputs is the reference fixture.
RawDomain == EngineSamples \cup FieldSamples \cup CrossSamples \cup {defaultInputs}

Scenarios == {Text("conservative"), Text("base"), Text("aggressive")}

\* The values applyScenario is called with: the three scenarios, a string that
\* names none of them, one that differs in case only, and null or undefined.
ScenarioValues == Scenarios \cup {Text("turbo"), Text("Conservative"), Null}

\* The values validateField is called with on a field: raw and coerced.
FieldValues(f) ==
    RawSamples(f) \cup {coerceValue(v, validationSchema[f].type) : v \in RawSamples(f)}

\* ------------------------------------------------------- URL state

\* The keys of defaultInputs in the order Object.entries visits them.
InputKeys ==
    <<"vehicleCount", "annualKmPerVehicle", "fuelConsumptionLPer100km", "fuelPricePerLitre",
      "baselineAccidentsPerYear", "avgAccidentCost", "annualInsurancePremium",
      "fuelSavingsPct", "accidentReductionPct", "insuranceReductionPct", "adoptionPct",
      "hardwareCostPerVehicle", "subscriptionPerVehiclePerMonth", "implementationOneOff",
      "trainingOneOff", "timeHorizonYears", "discountRatePct", "currency", "startMonth",
      "utilisationRampMonths", "resaleRecoveryPctHardware", "maintenancePerVehiclePerYear">>

\* a === b for two values: numbers compare as numbers (NaN equals nothing).
StrictEqV(a, b) == IF IsNum(a) /\ IsNum(b) THEN StrictEq(a.v, b.v) ELSE a = b

\* URLSearchParams, a list of <<key, value>> pairs: the key a name, the value
\* the characters of a string. set(key, value) writes the first pair of the key and drops its others, or appends.
ParamKeys(params) == {params[k][1] : k \in 1..Len(params)}

RECURSIVE paramsSetLoop(_, _, _, _)
paramsSetLoop(params, key, value, written) ==
    IF params = <<>> THEN <<>>
    ELSE IF Head(params)[1] # key
    THEN <<Head(params)>> \o paramsSetLoop(Tail(params), key, value, written)
    ELSE IF written THEN paramsSetLoop(Tail(params), key, value, TRUE)
    ELSE <<(<<key, value>>)>> \o paramsSetLoop(Tail(params), key, value, TRUE)

paramsSet(params, key, value) ==
    IF key \in ParamKeys(params) THEN paramsSetLoop(params, key, value, FALSE)
    ELSE Append(params, <<key, value>>)

\* The loop of serializeInputsToURL from the k-th key on.
RECURSIVE serializeLoop(_, _, _)
serializeLoop(inputs, k, params) ==
    IF k > Len(InputKeys) THEN params
    ELSE IF ~StrictEqV(inputs[InputKeys[k]], defaultInputs[InputKeys[k]])
    THEN serializeLoop(inputs, k + 1,
                       paramsSet(params, InputKeys[k], JsString(inputs[InputKeys[k]])))
    ELSE serializeLoop(inputs, k + 1, params)

\* serializeInputsToURL(inputs): the parameters of the fields that differ
\* from their default.
serializeInputsToURL(inputs) == serializeLoop(inputs, 1, <<>>)

\* The body of the loop of parseInputsFromURL with parseInt for parseFloat.
parseEntry_ParseInt(inputs, key, value) ==
    IF key \notin DOMAIN inputs THEN inputs
    ELSE IF IsNum(inputs[key])
    THEN (IF IsNaN(ParseIntStr(value)) THEN inputs
          ELSE [inputs EXCEPT ![key] = NumV(ParseIntStr(value))])
    ELSE IF IsStr(inputs[key]) THEN [inputs EXCEPT ![key] = Str(value)]
    ELSE inputs

\* The body of the loop of parseInputsFromURL: a key of the inputs takes the
\* parsed number when the default is a number and the text parses, the text
\* when the default is a string; every other key is skipped (a key that
\* Object.prototype supplies holds a function, neither number nor string).
parseEntry(inputs, key, value) ==
    IF key \notin DOMAIN inputs THEN inputs
    ELSE IF IsNum(inputs[key])
    THEN (IF IsNaN(ParseFloatStr(value)) THEN inputs
          ELSE [inputs EXCEPT ![key] = NumV(ParseFloatStr(value))])
    ELSE IF IsStr(inputs[key]) THEN [inputs EXCEPT ![key] = Str(value)]
    ELSE inputs

RECURSIVE parseLoop(_, _)
parseLoop(searchParams, inputs) ==
    IF searchParams = <<>> THEN inputs
    ELSE parseLoop(Tail(searchParams),
                   parseEntry(inputs, Head(searchParams)[1], Head(searchParams)[2]))

\* parseInputsFromURL(searchParams), starting from a copy of defaultInputs.
parseInputsFromURL(searchParams) == parseLoop(searchParams, defaultInputs)

\* The records serialized: defaultInputs with numbers and strings in some of
\* the fields, among them the defaults themselves, a fraction, a negative
\* number, Infinity and NaN, the empty string and a string of digits.
UrlInputs ==
    {[defaultInputs EXCEPT !["vehicleCount"] = NumV(count),
                           !["fuelConsumptionLPer100km"] = NumV(consumption),
                           !["resaleRecoveryPctHardware"] = NumV(resale),
                           !["currency"] = Str(currency),
                           !["startMonth"] = month] :
        count \in {Num(50), Num(3), Num(-2), PosInf, NaN},
        consumption \in {Frac(21, 2), Frac(29, 4)},
        resale \in {Num(0), Num(100)},
        currency \in {EUR, USD, <<>>, <<"1", "2">>},
        month \in {CurrentMonth, C(<<"2", "0", "2", "4", "-", "0", "5">>)}}

\* Parameters of a URL that name no input field.
ForeignParams ==
    {<<"utm_source", (<<"7">>)>>, <<"constructor", (<<"1">>)>>}

\* -------------------------------------------------------- application

ExampleTypes == {"courier", "bus", "taxi"}

\* exampleData of state.js.
exampleData ==
    [e \in ExampleTypes |->
        CASE e = "courier" -> defaultInputs
          [] e = "bus" ->
                [defaultInputs EXCEPT !["vehicleCount"] = NumV(Num(120)),
                                      !["annualKmPerVehicle"] = NumV(Num(80000)),
                                      !["fuelConsumptionLPer100km"] = NumV(Num(35)),
                                      !["baselineAccidentsPerYear"] = NumV(Num(8)),
                                      !["avgAccidentCost"] = NumV(Num(15000)),
                                      !["annualInsurancePremium"] = NumV(Num(300000)),
                                      !["fuelSavingsPct"] = NumV(Num(8)),
                                      !["accidentReductionPct"] = NumV(Num(25)),
                                      !["insuranceReductionPct"] = NumV(Num(12))]
          [] e = "taxi" ->
                [defaultInputs EXCEPT !["vehicleCount"] = NumV(Num(30)),
                                      !["annualKmPerVehicle"] = NumV(Num(120000)),
                                      !["fuelConsumptionLPer100km"] = NumV(Frac(17, 2)),
                                      !["baselineAccidentsPerYear"] = NumV(Num(18)),
                                      !["avgAccidentCost"] = NumV(Num(8000)),
                                      !["annualInsurancePremium"] = NumV(Num(180000)),
                                      !["fuelSavingsPct"] = NumV(Num(10)),
                                      !["accidentReductionPct"] = NumV(Num(40)),
                                      !["insuranceReductionPct"] = NumV(Num(15))]]

\* Timers: setTimeout returns the id of a new pending timer, clearTimeout
\* takes a pending timer away and does nothing for any other value. NoTimer
\* is the calculationTimeout field before the first setTimeout (undefined).
NoTimer == 0

NewTimerId(timers) == CHOOSE id \in 1..(Cardinality(timers) + 1) : id \notin timers

clearTimeout(timers, id) == timers \ {id}

NoErrors == [f \in {} |-> NoError]
NoInputs == [f \in Fields |-> Null]

\* The SamsaraROICalculator object as its constructor leaves it.
NewApp ==
    [currentInputs |-> NoInputs, currentResults |-> Null, isInitialized |-> FALSE,
     calculationTimeout |-> NoTimer]

\* The UIController object as its constructor leaves it; shownErrors is the
\* field-error text the page shows beside each input.
NewUI ==
    [currentInputs |-> NoInputs, currentResults |-> Null,
     currentScenario |-> Text("base"), shownErrors |-> NoErrors]

\* The page before the application writes the inputs into it.
EmptyDOM == [f \in Fields |-> <<>>]

\* updateInputsFromDOM: parseFloat(element.value) || 0 for a number input, the
\* text itself for the others.
updateInputsFromDOM(dom) ==
    [f \in Fields |->
        IF f \in NumericFields
        THEN LET x == ParseFloatStr(dom[f])
             IN  NumV(IF IsNaN(x) THEN Zero ELSE x)
        ELSE Str(dom[f])]

\* updateDOMFromInputs: element.value = value for every field of the inputs.
updateDOMFromInputs(inputs) == [f \in Fields |-> JsString(inputs[f])]

\* showValidationErrors: the message of every field of the map is shown; the
\* messages already on the page stay.
showValidationErrors(shown, errors) ==
    [f \in DOMAIN shown \cup DOMAIN errors |->
        IF f \in DOMAIN errors THEN errors[f] ELSE shown[f]]

\* What one run of performCalculation did: who ran it, the validation verdict
\* and errors, whether applyScenario and calculateROI were invoked, and the
\* error texts on the page and the runner's currentResults when it returned.
Cycle(who, v, invoked, shown, currentResults) ==
    [who |-> who, isValid |-> v.isValid, errors |-> v.errors,
     coercedInputs |-> v.coercedInputs,
     applyScenarioInvoked |-> invoked, calculateROIInvoked |-> invoked,
     shownErrors |-> shown, currentResults |-> currentResults]

\* The world w = [app, ui, dom, log] after showValidationErrors(errors).
withErrorsShown(w, errors) ==
    [w EXCEPT !.ui.shownErrors = showValidationErrors(@, errors)]

\* UIController.performCalculation, validation failed: the errors are shown
\* and the method returns.
uiRejectInputs(w, v) ==
    The({[shown EXCEPT !.log = Append(@, Cycle("ui", v, FALSE, shown.ui.shownErrors,
                                                 shown.ui.currentResults))] :
            shown \in {withErrorsShown(w, v.errors)}})

\* UIController.performCalculation, validation passed: the errors are
\* cleared, the scenario applied and the results calculated and kept; an
\* exception of the engine is caught and leaves the results as they were.
uiAcceptInputs(w, v) ==
    The({[w EXCEPT !.ui.shownErrors = NoErrors,
                   !.ui.currentResults = IF r.threw THEN @ ELSE r,
                   !.log = Append(@, Cycle("ui", v, TRUE, NoErrors,
                                           IF r.threw THEN w.ui.currentResults ELSE r))] :
            r \in {calculateROI(adjusted) :
                    adjusted \in {applyScenario(v.coercedInputs, w.ui.currentScenario)}}})

\* UIController.performCalculation.
uiPerformCalculation(w) ==
    The({IF ~v.isValid THEN uiRejectInputs(w, v) ELSE uiAcceptInputs(w, v) :
            v \in {validateInputs(w.ui.currentInputs)}})

\* The validation-failed branch that keeps the previous results.
rejectInputs_KeepsResults(w, v) ==
    The({[shown EXCEPT !.log = Append(@, Cycle("app", v, FALSE, shown.ui.shownErrors,
                                                 shown.app.currentResults))] :
            shown \in {withErrorsShown(w, v.errors)}})

\* SamsaraROICalculator.performCalculation, validation failed: the errors are
\* shown, currentResults is set to null and the method returns.
rejectInputs(w, v) ==
    The({[shown EXCEPT !.app.currentResults = Null,
                       !.log = Append(@, Cycle("app", v, FALSE, shown.ui.shownErrors, Null))] :
            shown \in {withErrorsShown(w, v.errors)}})

\* SamsaraROICalculator.performCalculation, validation passed: the errors are
\* cleared, the scenario applied, the results calculated and handed to the
\* controller; an exception of the engine is caught.
acceptInputs(w, v) ==
    The({[w EXCEPT !.ui.shownErrors = NoErrors,
                   !.app.currentResults = IF r.threw THEN @ ELSE r,
                   !.ui.currentResults = IF r.threw THEN @ ELSE r,
                   !.log = Append(@, Cycle("app", v, TRUE, NoErrors,
                                           IF r.threw THEN w.app.currentResults ELSE r))] :
            r \in {calculateROI(adjusted) :
                    adjusted \in {applyScenario(v.coercedInputs, w.ui.currentScenario)}}})

\* SamsaraROICalculator.performCalculation.
performCalculation(w) ==
    IF ~w.app.isInitialized THEN w
    ELSE The({IF ~v.isValid THEN rejectInputs(w, v) ELSE acceptInputs(w, v) :
                v \in {validateInputs(w.app.currentInputs)}})

\* UIController.setScenario: the scenario is stored and the controller
\* recalculates from its own inputs.
setScenario(w, s) ==
    The({uiPerformCalculation(set) : set \in {[w EXCEPT !.ui.currentScenario = s]}})

\* SamsaraROICalculator.handleScenarioClick.
handleScenarioClick(w, s) ==
    The({performCalculation(set) : set \in {setScenario(w, s)}})

\* handleInputChange that does not cancel the pending recompute.
handleInputChange_NoClearTimeout(w) ==
    IF ~w.app.isInitialized THEN w
    ELSE The({[w EXCEPT !.ui.currentInputs = inputs,
                        !.app.currentInputs = inputs,
                        !.app.calculationTimeout = NewTimerId(w.timers),
                        !.timers = w.timers \cup {NewTimerId(w.timers)}] :
                inputs \in {updateInputsFromDOM(w.dom)}})

\* handleInputChange that leaves the application's own currentInputs as they
\* were.
handleInputChange_KeepsAppInputs(w) ==
    IF ~w.app.isInitialized THEN w
    ELSE The({[w EXCEPT !.ui.currentInputs = inputs,
                        !.app.calculationTimeout = NewTimerId(cleared),
                        !.timers = cleared \cup {NewTimerId(cleared)}] :
                inputs \in {updateInputsFromDOM(w.dom)},
                cleared \in {clearTimeout(w.timers, w.app.calculationTimeout)}})

\* SamsaraROICalculator.handleInputChange: the inputs are read from the page
\* and the pending recompute is replaced by a new one, 100 ms away.
handleInputChange(w) ==
    IF ~w.app.isInitialized THEN w
    ELSE The({[w EXCEPT !.ui.currentInputs = inputs,
                        !.app.currentInputs = inputs,
                        !.app.calculationTimeout = NewTimerId(cleared),
                        !.timers = cleared \cup {NewTimerId(cleared)}] :
                inputs \in {updateInputsFromDOM(w.dom)},
                cleared \in {clearTimeout(w.timers, w.app.calculationTimeout)}})

\* An export call: the arguments exportToCSV or exportToPDF is invoked with.
exportCall(kind, currentResults, currentInputs) ==
    [kind |-> kind, results |-> currentResults, inputs |-> currentInputs]

\* SamsaraROICalculator.handleExportCSV and handleExportPDF: nothing without
\* results, else the export controller is called with the current results
\* and inputs.
handleExport(w, kind) ==
    IF w.app.currentResults = Null THEN w
    ELSE [w EXCEPT !.exported =
                Append(@, exportCall(kind, w.app.currentResults, w.app.currentInputs))]

\* SamsaraROICalculator.loadExampleData.
loadExampleData(w, exampleInputs) ==
    The({performCalculation(loaded) :
            loaded \in {[w EXCEPT !.app.currentInputs = exampleInputs,
                                  !.dom = updateDOMFromInputs(exampleInputs)]}})

\* SamsaraROICalculator.handleExampleClick.
handleExampleClick(w, exampleType) == loadExampleData(w, exampleData[exampleType])

\* SamsaraROICalculator.init with the inputs loadInitialInputs returned: the
\* first performCalculation runs before isInitialized is set.
init(w, loaded) ==
    The({[performCalculation(w1) EXCEPT !.app.isInitialized = TRUE] :
            w1 \in {[w EXCEPT !.app.currentInputs = loaded,
                              !.ui = NewUI,
                              !.dom = updateDOMFromInputs(loaded)]}})

\* What loadInitialInputs can return: the defaults, or the defaults with
\* fields overridden from the URL.
InitialInputs ==
    {defaultInputs, [defaultInputs EXCEPT !["vehicleCount"] = NumV(Num(0))]}

\* The example and scenario buttons the user clicks.
ClickedExamples == {"bus"}

ClickedScenarios == {Text("base"), Text("conservative")}

ExportKinds == {"csv", "pdf"}

\* The fields the user edits and the texts typed into them.
EditedFields == {"vehicleCount", "utilisationRampMonths"}

EditTexts(f) ==
    IF f = "vehicleCount" THEN {<<>>, <<"3">>} ELSE {<<"4", "0">>}

\* -------------------------------------------------------------- state

VARIABLES
    rawInputs,        \* the raw record handed to validateInputs
    scenario,         \* the scenario handed to applyScenario
    validation,       \* the result of validateInputs, or Null
    scenarioInputs,   \* the result of applyScenario, or Null
    recalculation,    \* the scenario inputs and results of a second run, or Null
    fieldCall,        \* one call of validateField: its arguments and result, or Null
    app,              \* the SamsaraROICalculator object
    ui,               \* the UIController object
    dom,              \* the value of each input element of the page
    cycles,           \* the performCalculation runs of the last event handled
    timers,           \* the ids of the pending setTimeout timers
    exported,         \* the export calls of the last event handled
    simpleCall,       \* one call of a straight-line calculator, or Null
    urlCall           \* one record on its way through the URL and back, or Null

engineVars == <<rawInputs, scenario, validation, scenarioInputs, results, recalculation>>
appVars == <<app, ui, dom, cycles, timers, exported>>
vars ==
    <<rawInputs, scenario, validation, scenarioInputs, results, recalculation, fieldCall,
      app, ui, dom, cycles, timers, exported, simpleCall, urlCall>>

AppIdle ==
    /\ app = NewApp
    /\ ui = NewUI
    /\ dom = EmptyDOM
    /\ cycles = <<>>
    /\ timers = {}
    /\ exported = <<>>

EngineIdle ==
    /\ rawInputs = NoInputs
    /\ scenario = Text("base")
    /\ validation = Null
    /\ scenarioInputs = Null
    /\ results = Null
    /\ recalculation = Null

FieldIdle == fieldCall = Null

SimpleIdle == simpleCall = Null

UrlIdle == urlCall = Null

\* The engine and the validation on sampled records.
Init ==
    /\ rawInputs \in RawDomain
    /\ scenario \in ScenarioValues
    /\ validation = Null
    /\ scenarioInputs = Null
    /\ results = Null
    /\ recalculation = Null
    /\ FieldIdle
    /\ SimpleIdle
    /\ UrlIdle
    /\ AppIdle

\* validateInputs is called on the raw record.
CallValidateInputs ==
    /\ validation = Null
    /\ validation' = validateInputs(rawInputs)
    /\ UNCHANGED <<rawInputs, scenario, scenarioInputs, results, recalculation, fieldCall, simpleCall, urlCall>>
    /\ UNCHANGED appVars

\* applyScenario is called on the coerced inputs of a valid record; the
\* caller keeps the object it passed.
CallApplyScenario ==
    /\ validation # Null
    /\ validation.isValid
    /\ scenarioInputs = Null
    /\ \E call \in {applyScenarioCall(validation.coercedInputs, scenario)} :
            /\ scenarioInputs' = call.modifiedInputs
            /\ validation' = [validation EXCEPT !.coercedInputs = call.inputs]
    /\ UNCHANGED <<rawInputs, scenario, results, recalculation, fieldCall, simpleCall, urlCall>>
    /\ UNCHANGED appVars

\* calculateROI is called on the scenario inputs.
CallCalculateROI ==
    /\ scenarioInputs # Null
    /\ results = Null
    /\ results' = calculateROI(scenarioInputs)
    /\ UNCHANGED <<rawInputs, scenario, validation, scenarioInputs, recalculation, fieldCall, simpleCall, urlCall>>
    /\ UNCHANGED appVars

\* The scenario is applied to the same validated record once more and the
\* results are calculated again.
Recalculate ==
    /\ results # Null
    /\ recalculation = Null
    /\ \E call \in {applyScenarioCall(validation.coercedInputs, scenario)} :
       \E again \in {calculateROI(call.modifiedInputs)} :
            /\ recalculation' = [scenarioInputs |-> call.modifiedInputs, results |-> again]
            /\ validation' = [validation EXCEPT !.coercedInputs = call.inputs]
    /\ UNCHANGED <<rawInputs, scenario, scenarioInputs, results, fieldCall, simpleCall, urlCall>>
    /\ UNCHANGED appVars

Next == CallValidateInputs \/ CallApplyScenario \/ CallCalculateROI \/ Recalculate

Spec == Init /\ [][Next]_vars

\* validateField on its own: one field of the schema and one value.
FieldInit ==
    /\ \E f \in Fields : \E v \in FieldValues(f) :
            fieldCall = [fieldName |-> f, value |-> v, returned |-> FALSE, error |-> NoError]
    /\ EngineIdle
    /\ SimpleIdle
    /\ UrlIdle
    /\ AppIdle

CallValidateField ==
    /\ fieldCall # Null
    /\ ~fieldCall.returned
    /\ fieldCall' =
            [fieldCall EXCEPT !.returned = TRUE,
                              !.error = validateField(fieldCall.fieldName, fieldCall.value,
                                                      validationSchema[fieldCall.fieldName])]
    /\ UNCHANGED engineVars
    /\ UNCHANGED appVars
    /\ UNCHANGED <<simpleCall, urlCall>>

FieldNext == CallValidateField

SpecField == FieldInit /\ [][FieldNext]_vars

\* The straight-line calculators, each called on the sampled overrides.
SimpleInit ==
    /\ \E variant \in SimpleVariants : \E overrides \in SimpleOverrides :
            simpleCall = [variant |-> variant, inputs |-> overrides, returned |-> FALSE,
                          result |-> Null]
    /\ EngineIdle
    /\ FieldIdle
    /\ UrlIdle
    /\ AppIdle

Returns(result) ==
    /\ simpleCall' = [simpleCall EXCEPT !.returned = TRUE, !.result = result]
    /\ UNCHANGED engineVars
    /\ UNCHANGED appVars
    /\ UNCHANGED <<fieldCall, urlCall>>

SimplePending(variant) ==
    /\ simpleCall # Null
    /\ ~simpleCall.returned
    /\ simpleCall.variant = variant

CallCalculate ==
    /\ SimplePending("calculate")
    /\ Returns(calculate(simpleCall.inputs))

CallBackupCalculate ==
    /\ SimplePending("backupCalculate")
    /\ Returns(backupCalculate(simpleCall.inputs))

CallSimpleCalculateROI ==
    /\ SimplePending("simpleCalculateROI")
    /\ Returns(simpleCalculateROI(merge(simpleDefaultInputs, simpleCall.inputs)))

SimpleNext == CallCalculate \/ CallBackupCalculate \/ CallSimpleCalculateROI

SpecSimple == SimpleInit /\ [][SimpleNext]_vars

\* The URL state: a record is serialized, the URL may gain a parameter that
\* names no input field, and the parameters are parsed back.
UrlInit ==
    /\ \E inputs \in UrlInputs :
            urlCall = [inputs |-> inputs, step |-> "start", serialized |-> <<>>,
                       searchParams |-> <<>>, parsed |-> Null]
    /\ EngineIdle
    /\ FieldIdle
    /\ SimpleIdle
    /\ AppIdle

UrlBecomes(call) ==
    /\ urlCall' = call
    /\ UNCHANGED engineVars
    /\ UNCHANGED appVars
    /\ UNCHANGED <<fieldCall, simpleCall>>

CallSerializeInputsToURL ==
    /\ urlCall # Null
    /\ urlCall.step = "start"
    /\ \E params \in {serializeInputsToURL(urlCall.inputs)} :
            UrlBecomes([urlCall EXCEPT !.step = "serialized", !.serialized = params,
                                       !.searchParams = params])

ForeignParamAdded ==
    /\ urlCall # Null
    /\ urlCall.step = "serialized"
    /\ urlCall.searchParams = urlCall.serialized
    /\ \E param \in ForeignParams :
            UrlBecomes([urlCall EXCEPT !.searchParams = Append(@, param)])

CallParseInputsFromURL ==
    /\ urlCall # Null
    /\ urlCall.step = "serialized"
    /\ UrlBecomes([urlCall EXCEPT !.step = "parsed",
                                  !.parsed = parseInputsFromURL(urlCall.searchParams)])

UrlNext == CallSerializeInputsToURL \/ ForeignParamAdded \/ CallParseInputsFromURL

SpecUrl == UrlInit /\ [][UrlNext]_vars

\* The application: the page is loaded, then events are handled one at a time.
World ==
    [app |-> app, ui |-> ui, dom |-> dom, timers |-> timers, log |-> <<>>, exported |-> <<>>]

Becomes(w) ==
    /\ app' = w.app
    /\ ui' = w.ui
    /\ dom' = w.dom
    /\ cycles' = w.log
    /\ timers' = w.timers
    /\ exported' = w.exported
    /\ UNCHANGED engineVars
    /\ UNCHANGED <<fieldCall, simpleCall, urlCall>>

AppInit == EngineIdle /\ FieldIdle /\ SimpleIdle /\ UrlIdle /\ AppIdle

\* The DOM is ready: init() runs.
PageLoads ==
    /\ ~app.isInitialized
    /\ \E loaded \in InitialInputs : \E w \in {init(World, loaded)} : Becomes(w)

\* The user types into a field: the 'input' event reaches the controller's
\* listener and the application's, both of which run handleInputChange.
InputEvent ==
    /\ app.isInitialized
    /\ \E f \in EditedFields : \E text \in EditTexts(f) :
       \E typed \in {[World EXCEPT !.dom[f] = text]} :
       \E w1 \in {handleInputChange(typed)} :
       \E w2 \in {handleInputChange(w1)} : Becomes(w2)

\* The debounce timer expires.
TimerFires ==
    \E id \in timers :
    \E fired \in {[World EXCEPT !.timers = @ \ {id}]} :
    \E w \in {performCalculation(fired)} : Becomes(w)

\* A scenario button is clicked: the controller's listener, then the
\* application's.
ScenarioClick ==
    /\ app.isInitialized
    /\ \E s \in ClickedScenarios :
       \E w1 \in {setScenario(World, s)} :
       \E w2 \in {handleScenarioClick(w1, s)} : Becomes(w2)

\* An example button is clicked: both listeners run the application's
\* handleExampleClick.
ExampleClick ==
    /\ app.isInitialized
    /\ \E e \in ClickedExamples :
       \E w1 \in {handleExampleClick(World, e)} :
       \E w2 \in {handleExampleClick(w1, e)} : Becomes(w2)

\* An export button is clicked: the controller's listener, which the
\* application has pointed at its own handler, then the application's.
ExportClick ==
    /\ app.isInitialized
    /\ \E kind \in ExportKinds :
       \E w1 \in {handleExport(World, kind)} :
       \E w2 \in {handleExport(w1, kind)} : Becomes(w2)

AppNext ==
    PageLoads \/ InputEvent \/ TimerFires \/ ScenarioClick \/ ExampleClick \/ ExportClick

SpecApp == AppInit /\ [][AppNext]_vars

\* A timer expires: it leaves the pending timers and its callback runs. In
\* the application these are the steps of TimerFires.
TimerExpires == \E id \in timers : timers' = timers \ {id}

\* The application with the browser's timer guarantee: a pending timer
\* expires.
SpecAppLive == SpecApp /\ WF_timers(TimerExpires)

\* ------------------------------------------------------------- claims

Validated == validation # Null
Adjusted == scenarioInputs # Null
Calculated == results # Null /\ ~results.threw

HorizonMonths == In(scenarioInputs, "timeHorizonYears").n * 12

NoMonthPaysBack(cum) == \A m \in 1..Len(cum) : Lt(cum[m], Zero)

\* C1: calculatePayback returns the smallest 1-indexed month whose cumulative
\* net is >= 0; when no month of the horizon has one it returns the horizon
\* length in months; the value always lies in 1..horizonYears*12.
C1_PaybackIsFirstNonNegativeMonth ==
    Calculated =>
        LET cum == results.timeline.cumNetMonthly
            p == results.paybackMonths
        IN  /\ Len(cum) = HorizonMonths
            /\ p \in 1..HorizonMonths
            /\ IF NoMonthPaysBack(cum) THEN p = HorizonMonths
               ELSE /\ Ge(cum[p], Zero)
                    /\ \A k \in 1..(p - 1) : Lt(cum[k], Zero)

\* A payback strictly inside the horizon, after months of negative balance.
C1_Witness ==
    /\ Calculated
    /\ results.paybackMonths > 1
    /\ results.paybackMonths < Len(results.timeline.cumNetMonthly)
    /\ Lt(results.timeline.cumNetMonthly[1], Zero)

\* C2: the result tells "no payback within the horizon" apart from every
\* payback that does occur: paybackMonths equals the timeline's month count
\* exactly when no month has a cumulative net >= 0.
C2_NonPaybackSignalIsExplicit ==
    Calculated =>
        (results.paybackMonths = Len(results.timeline.months)
            <=> NoMonthPaysBack(results.timeline.cumNetMonthly))

\* C3: a valid record has every field present, every numeric field finite and
\* within its closed range, whole numbers in the integer fields, an allowed
\* currency, a YYYY-MM start month with month 01..12, and a ramp that does
\* not exceed the horizon in months.
C3_ValidMeansConforming ==
    (Validated /\ validation.isValid) =>
        LET c == validation.coercedInputs
        IN  /\ \A f \in Fields : c[f] # Null
            /\ \A f \in NumericFields :
                    /\ IsNum(c[f])
                    /\ IsFinite(c[f].v)
                    /\ Le(validationSchema[f].min, c[f].v)
                    /\ Le(c[f].v, validationSchema[f].max)
            /\ \A f \in IntegerFields : c[f].v.d = 1
            /\ IsStr(c["currency"]) /\ c["currency"].s \in {EUR, USD, GBP}
            /\ IsStr(c["startMonth"])
            /\ IsYearMonthText(c["startMonth"].s)
            /\ DigitsValue(SubSeq(c["startMonth"].s, 6, 7), 0) \in 1..12
            /\ c["utilisationRampMonths"].v.n <= c["timeHorizonYears"].v.n * 12

\* A valid record whose values arrived as text and at a bound.
C3_Witness ==
    /\ Validated
    /\ validation.isValid
    /\ \E f \in NumericFields :
            /\ IsStr(rawInputs[f])
            /\ validation.coercedInputs[f] = NumV(validationSchema[f].max)

\* The number a raw value stands for, as parseFloat reads it.
Supplied(f) == parseFloat(rawInputs[f])

\* C4: a non-integer value supplied for an integer field is reported as an
\* error on that field and the record is not valid.
C4_NonIntegerRejected ==
    Validated =>
        \A f \in IntegerFields :
            (IsFinite(Supplied(f)) /\ ~IsInteger(Supplied(f))) =>
                /\ ~validation.isValid
                /\ f \in DOMAIN validation.errors

\* A raw value that is a number of the field's declared type.
TypedNumber(f) ==
    /\ IsNum(rawInputs[f])
    /\ IsFinite(rawInputs[f].v)
    /\ f \in IntegerFields => IsInteger(rawInputs[f].v)

InRange(f, x) == Le(validationSchema[f].min, x) /\ Le(x, validationSchema[f].max)

\* C5: the range of every numeric field is closed: a value within [min, max],
\* the bounds included, gets no range error (the only error it can carry is
\* the cross-field one), and a value outside makes the record invalid with an
\* error on the field.
C5_BoundsInclusive ==
    Validated =>
        \A f \in NumericFields :
            TypedNumber(f) =>
                IF InRange(f, rawInputs[f].v)
                THEN f \in DOMAIN validation.errors => validation.errors[f] = RampExceedsHorizon
                ELSE ~validation.isValid /\ f \in DOMAIN validation.errors

\* 10000 vehicles, the upper bound, accepted.
C5_Witness ==
    /\ Validated
    /\ rawInputs["vehicleCount"] = NumV(Num(10000))
    /\ validation.isValid

FiniteSeq(s) == \A i \in 1..Len(s) : IsFinite(s[i])

\* C7: for inputs that passed validation, under every scenario, calculateROI
\* does not throw and every numeric output is finite.
C7_ResultsFinite ==
    results # Null =>
        /\ ~results.threw
        /\ \A k \in {"baselineFuelCost", "fuelSavingsAnnual", "accidentSavingsAnnual",
                     "insuranceSavingsAnnual", "totalSavingsAnnual", "capexHardware",
                     "opexSubscriptionAnnual", "oneOff", "maintenanceAnnual",
                     "roiSimplePct"} : IsFinite(results[k])
        /\ results.paybackMonths \in Nat
        /\ \A i \in 1..Len(results.timeline.months) : results.timeline.months[i] \in Nat
        /\ FiniteSeq(results.timeline.savingsMonthly)
        /\ FiniteSeq(results.timeline.costsMonthly)
        /\ FiniteSeq(results.timeline.netMonthly)
        /\ FiniteSeq(results.timeline.cumNetMonthly)

TotalCosts ==
    Add(Add(results.capexHardware, results.oneOff),
        Mul(Add(results.opexSubscriptionAnnual, results.maintenanceAnnual),
            In(scenarioInputs, "timeHorizonYears")))

TotalSavings == Mul(results.totalSavingsAnnual, In(scenarioInputs, "timeHorizonYears"))

\* No ramp and no cost at all: both divisors of the engine are zero.
C7_Witness ==
    /\ Calculated
    /\ In(scenarioInputs, "utilisationRampMonths") = Zero
    /\ TotalCosts = Zero

\* C8: the simple ROI is 0 when the total cost over the horizon is 0, and
\* ((totalSavings - totalCosts) / totalCosts) * 100 otherwise.
C8_SimpleROI ==
    Calculated =>
        results.roiSimplePct =
            IF TotalCosts = Zero THEN Zero
            ELSE Mul(Div(Sub(TotalSavings, TotalCosts), TotalCosts), Num(100))

\* Savings without any cost: the ROI is 0.
C8_Witness ==
    /\ Calculated
    /\ TotalCosts = Zero
    /\ Gt(TotalSavings, Zero)
    /\ results.roiSimplePct = Zero

\* C9: in every timeline net = savings - costs month by month, the first
\* cumulative net is the first net, and each later one adds its month's net
\* to the one before.
C9_CumulativeNetAccumulates ==
    Calculated =>
        LET tl == results.timeline
        IN  \A i \in 1..Len(tl.months) :
                /\ tl.netMonthly[i] = Sub(tl.savingsMonthly[i], tl.costsMonthly[i])
                /\ tl.cumNetMonthly[i] =
                        IF i = 1 THEN tl.netMonthly[1]
                        ELSE Add(tl.cumNetMonthly[i - 1], tl.netMonthly[i])

\* A timeline whose first two months both move the balance.
C9_Witness ==
    /\ Calculated
    /\ Lt(results.timeline.netMonthly[1], Zero)
    /\ Gt(results.timeline.netMonthly[2], Zero)
    /\ results.timeline.cumNetMonthly[2] # results.timeline.netMonthly[2]

SensitivityFields == {"fuelSavingsPct", "accidentReductionPct", "insuranceReductionPct"}

ScenarioFactor ==
    IF scenario = Text("conservative") THEN Frac(3, 4)
    ELSE IF scenario = Text("aggressive") THEN Frac(5, 4)
    ELSE Num(1)

\* C10: applyScenario multiplies the three sensitivity fields by 0.75 under
\* 'conservative', by 1.25 under 'aggressive' and by nothing under 'base',
\* and every other field of the result equals the input's.
C10_ScenarioScalesThreeFields ==
    (Adjusted /\ scenario \in Scenarios) =>
        LET in == validation.coercedInputs
        IN  /\ DOMAIN scenarioInputs = DOMAIN in
            /\ \A f \in SensitivityFields :
                    scenarioInputs[f] = NumV(Mul(in[f].v, ScenarioFactor))
            /\ \A f \in Fields \ SensitivityFields : scenarioInputs[f] = in[f]
            /\ scenario = Text("base") => scenarioInputs = in

\* An aggressive scenario that raised all three percentages.
C10_Witness ==
    /\ Adjusted
    /\ scenario = Text("aggressive")
    /\ \A f \in SensitivityFields :
            Gt(scenarioInputs[f].v, validation.coercedInputs[f].v)

\* The performCalculation runs of the last event whose validation failed.
InvalidCycles == {k \in 1..Len(cycles) : ~cycles[k].isValid}

\* C6: in a performCalculation run whose validateInputs result is not valid,
\* neither applyScenario nor calculateROI is invoked, every error of the
\* result is shown at its field, and the application's currentResults is null
\* when its run returns.
C6_ValidationErrorsStopPipeline ==
    /\ \A k \in InvalidCycles :
        /\ ~cycles[k].applyScenarioInvoked
        /\ ~cycles[k].calculateROIInvoked
        /\ \A f \in DOMAIN cycles[k].errors :
                /\ f \in DOMAIN cycles[k].shownErrors
                /\ cycles[k].shownErrors[f] = cycles[k].errors[f]
        /\ cycles[k].who = "app" => cycles[k].currentResults = Null
    /\ (cycles # <<>> /\ cycles[Len(cycles)].who = "app" /\ Len(cycles) \in InvalidCycles)
            => app.currentResults = Null

\* The application rejects inputs while the controller still holds the results
\* of an earlier valid run.
C6_Witness ==
    /\ \E k \in InvalidCycles :
        /\ cycles[k].who = "app"
        /\ cycles[k].errors # NoErrors
        /\ k = Len(cycles)
    /\ app.currentResults = Null
    /\ ui.currentResults # Null
    /\ ui.shownErrors # NoErrors

\* C11: applyScenario called with a value that is neither 'conservative' nor
\* 'aggressive' (another string, null, undefined) returns a record equal to
\* its input, as it does for 'base'.
C11_UnknownScenarioIsBase ==
    (Adjusted /\ scenario \notin {Text("conservative"), Text("aggressive")}) =>
        /\ scenarioInputs = validation.coercedInputs
        /\ scenarioInputs = applyScenario(validation.coercedInputs, Text("base"))

\* applyScenario has returned from a call with null for the scenario.
C11_Witness ==
    /\ Adjusted
    /\ scenario = Null
    /\ scenarioInputs["fuelSavingsPct"] = NumV(Num(10))

\* C12: applyScenario leaves the record it is given as it was: after the call
\* every field of the validated record has the value validateInputs gave it,
\* and applying the scenario to that record again gives the same result.
C12_ArgumentNotMutated ==
    Adjusted =>
        /\ validation.coercedInputs = validateInputs(rawInputs).coercedInputs
        /\ recalculation # Null => recalculation.scenarioInputs = scenarioInputs

\* A scenario that scales has been applied twice to one validated record.
C12_Witness ==
    /\ recalculation # Null
    /\ scenario = Text("aggressive")
    /\ Gt(scenarioInputs["fuelSavingsPct"].v, validation.coercedInputs["fuelSavingsPct"].v)

\* What validateField's checks look at.
Absent(v) == IsNull(v) \/ v = Str(<<>>)

Conforms(v, type) ==
    CASE type = "integer" -> IsNum(v) /\ IsInteger(v.v)
      [] type = "number" -> IsNum(v)
      [] type = "string" -> IsStr(v)
      [] type = "date" -> TRUE

BelowMin(v, schema) == IsNum(v) /\ schema.hasRange /\ Lt(v.v, schema.min)
AboveMax(v, schema) == IsNum(v) /\ schema.hasRange /\ Gt(v.v, schema.max)
NotAllowed(v, schema) == schema.allowedValues # {} /\ ~(IsStr(v) /\ v.s \in schema.allowedValues)

TypeErrors == {"wholeNumber", "number", "text"}
RangeErrors == {"atLeast", "atMost"}

\* C13: validateField returns one message, that of the first failing check in
\* the order presence, type, range, allowed values: an absent value yields
\* 'is required', and a range error is returned only for a present value of
\* the field's type.
C13_FirstFailingCheckWins ==
    (fieldCall # Null /\ fieldCall.returned) =>
        LET v == fieldCall.value
            schema == validationSchema[fieldCall.fieldName]
            kind == fieldCall.error.kind
        IN  /\ Absent(v) <=> kind = "required"
            /\ (~Absent(v) /\ ~Conforms(v, schema.type)) <=> kind \in TypeErrors
            /\ kind \in RangeErrors <=>
                    /\ ~Absent(v)
                    /\ Conforms(v, schema.type)
                    /\ BelowMin(v, schema) \/ AboveMax(v, schema)
            /\ kind = "atLeast" => BelowMin(v, schema)
            /\ kind = "oneOf" <=>
                    /\ ~Absent(v)
                    /\ Conforms(v, schema.type)
                    /\ ~BelowMin(v, schema) /\ ~AboveMax(v, schema)
                    /\ NotAllowed(v, schema)
            /\ kind \in {"none", "required", "oneOf"} \cup TypeErrors \cup RangeErrors

\* A fraction above the maximum of an integer field: the type error is
\* returned, not the range error.
C13_Witness ==
    /\ fieldCall # Null
    /\ fieldCall.returned
    /\ fieldCall.fieldName = "vehicleCount"
    /\ AboveMax(fieldCall.value, validationSchema["vehicleCount"])
    /\ fieldCall.error.kind = "wholeNumber"

\* C14: when the ramp exceeds the horizon in months validateInputs returns
\* isValid = false with the cross-field error on utilisationRampMonths; when
\* the ramp is at most the horizon in months there is no cross-field error.
C14_RampBeyondHorizonRejected ==
    Validated =>
        LET c == validation.coercedInputs
        IN  (IsNum(c["utilisationRampMonths"]) /\ IsNum(c["timeHorizonYears"])) =>
                IF Gt(c["utilisationRampMonths"].v, Mul(c["timeHorizonYears"].v, Num(12)))
                THEN /\ ~validation.isValid
                     /\ "utilisationRampMonths" \in DOMAIN validation.errors
                     /\ validation.errors["utilisationRampMonths"] = RampExceedsHorizon
                     /\ \A f \in DOMAIN validation.errors \ {"utilisationRampMonths"} :
                            validation.errors[f] # RampExceedsHorizon
                ELSE \A f \in DOMAIN validation.errors :
                            validation.errors[f] # RampExceedsHorizon

\* A ramp of 13 months on a horizon of 1 year: in range, and rejected.
C14_Witness ==
    /\ Validated
    /\ validation.coercedInputs["utilisationRampMonths"] = NumV(Num(13))
    /\ validation.coercedInputs["timeHorizonYears"] = NumV(Num(1))
    /\ DOMAIN validation.errors = {"utilisationRampMonths"}

\* A raw value that is empty, missing or cannot be parsed for its field.
Unusable(f) ==
    \/ Absent(rawInputs[f])
    \/ f \in NumericFields /\ IsNaN(parseFloat(rawInputs[f]))
    \/ f = "startMonth" /\ ~(IsStr(rawInputs[f]) /\ IsYearMonthText(rawInputs[f].s))

\* C15: coercedInputs holds every schema field whether the record is valid or
\* not, and a field whose raw value is empty, missing or unparseable is null
\* in it.
C15_CoercedRecordIsComplete ==
    Validated =>
        /\ DOMAIN validation.coercedInputs = Fields
        /\ \A f \in Fields : Unusable(f) => validation.coercedInputs[f] = Null

\* An invalid record with an unparseable text in one field and the coerced
\* values of the others.
C15_Witness ==
    /\ Validated
    /\ ~validation.isValid
    /\ rawInputs["vehicleCount"] = C(<<"a", "b", "c">>)
    /\ validation.coercedInputs["vehicleCount"] = Null
    /\ validation.coercedInputs["timeHorizonYears"] = NumV(Num(1))

\* A past month, the current one and a coming one.
AdvisoryMonths ==
    {C(<<"2", "0", "2", "4", "-", "0", "5">>), CurrentMonth,
     C(<<"2", "0", "2", "7", "-", "0", "3">>)}

\* C16: a start month in the past never makes validation fail: a record with
\* a valid start month and the records that differ from it only in a valid
\* start month, past or not, get the same isValid and the same errors, and a
\* past start month puts no error on startMonth.
C16_PastStartMonthIsAdvisory ==
    (Validated /\ ~Adjusted /\ coerceDate(rawInputs["startMonth"]) # Null) =>
        /\ "startMonth" \notin DOMAIN validation.errors
        /\ \A m \in AdvisoryMonths :
             \E other \in {validateInputs([rawInputs EXCEPT !["startMonth"] = m])} :
                /\ other.isValid = validation.isValid
                /\ other.errors = validation.errors

\* A record starting in a past month that validateInputs has accepted.
C16_Witness ==
    /\ Validated
    /\ startMonthInPast(validation.coercedInputs)
    /\ ~startMonthInPast([validation.coercedInputs EXCEPT !["startMonth"] = CurrentMonth])
    /\ validation.isValid

C18_RampScalesMonthlySavings ==
    Calculated =>
        LET ramp == In(scenarioInputs, "utilisationRampMonths")
            full == Div(results.totalSavingsAnnual, Num(12))
            tl == results.timeline
        IN  \A i \in 0..(Len(tl.savingsMonthly) - 1) :
                /\ tl.savingsMonthly[i + 1] =
                        IF i < ramp.n THEN Mul(full, Frac(i + 1, ramp.n)) ELSE full
                /\ ramp = Zero => tl.savingsMonthly[i + 1] = full
                /\ IsFinite(tl.savingsMonthly[i + 1])

\* A ramp of 3 months: a third of the full savings in the first month, all of
\* them in the fourth.
C18_Witness ==
    /\ Calculated
    /\ In(scenarioInputs, "utilisationRampMonths") = Num(3)
    /\ Gt(results.totalSavingsAnnual, Zero)
    /\ Mul(results.timeline.savingsMonthly[1], Num(3)) = results.timeline.savingsMonthly[4]
    /\ results.timeline.savingsMonthly[4] = Div(results.totalSavingsAnnual, Num(12))

\* C19: the costs of the month with index i are (opex + maintenance) / 12,
\* plus capex + one-off costs at i = 0 only, less capex * resale / 100 in the
\* last month only and only when the resale percentage is above 0; the
\* timeline has horizon * 12 entries numbered 1 to horizon * 12.
C19_MonthlyCostsAndLength ==
    Calculated =>
        LET tl == results.timeline
            last == HorizonMonths - 1
            resale == In(scenarioInputs, "resaleRecoveryPctHardware")
            running == Div(Add(results.opexSubscriptionAnnual, results.maintenanceAnnual),
                           Num(12))
            outlay == Add(results.capexHardware, results.oneOff)
            recovered == Div(Mul(results.capexHardware, resale), Num(100))
        IN  /\ Len(tl.months) = HorizonMonths
            /\ Len(tl.savingsMonthly) = HorizonMonths
            /\ Len(tl.costsMonthly) = HorizonMonths
            /\ Len(tl.netMonthly) = HorizonMonths
            /\ Len(tl.cumNetMonthly) = HorizonMonths
            /\ \A i \in 0..last :
                /\ tl.months[i + 1] = i + 1
                /\ tl.costsMonthly[i + 1] =
                        Sub(Add(running, IF i = 0 THEN outlay ELSE Zero),
                            IF i = last /\ Gt(resale, Zero) THEN recovered ELSE Zero)

\* Hardware with a resale value: the first month carries the outlay, the
\* last month the recovery, the months between only the running costs.
C19_Witness ==
    /\ Calculated
    /\ Gt(results.capexHardware, Zero)
    /\ Gt(In(scenarioInputs, "resaleRecoveryPctHardware"), Zero)
    /\ HorizonMonths = 24
    /\ Gt(results.timeline.costsMonthly[1], results.timeline.costsMonthly[2])
    /\ Lt(results.timeline.costsMonthly[24], results.timeline.costsMonthly[2])
    /\ results.timeline.costsMonthly[2] = results.timeline.costsMonthly[23]

\* C20: defaultInputs under the base scenario give a baseline fuel cost of
\* 448,875, total annual savings of 53,939.25, a payback month between 1 and
\* 9 and a simple ROI between 10% and 99%.
C20_ReferenceFixture ==
    (Calculated /\ rawInputs = defaultInputs /\ scenario = Text("base")) =>
        /\ results.baselineFuelCost = Num(448875)
        /\ results.totalSavingsAnnual = Frac(5393925, 100)
        /\ results.paybackMonths \in 1..9
        /\ Ge(results.roiSimplePct, Num(10))
        /\ Le(results.roiSimplePct, Num(99))

\* calculateROI has returned for defaultInputs under 'base'.
C20_Witness ==
    /\ Calculated
    /\ rawInputs = defaultInputs
    /\ scenario = Text("base")
    /\ Len(results.timeline.months) = 36
    /\ Gt(results.timeline.cumNetMonthly[results.paybackMonths], Zero)

\* C24: the inputs handed to calculateROI satisfy the validation schema:
\* after applyScenario under any of the three scenarios fuelSavingsPct,
\* accidentReductionPct and insuranceReductionPct are within their ranges.
C24_ScenarioInputsWithinSchema ==
    (Adjusted /\ scenario \in Scenarios) =>
        \A f \in SensitivityFields :
            /\ Ge(In(scenarioInputs, f), validationSchema[f].min)
            /\ Le(In(scenarioInputs, f), validationSchema[f].max)

\* C28: with a ramp of at most one month and no resale the last cumulative
\* net of the timeline is totalSavingsAnnual * horizon less capex + one-off
\* costs + (opex + maintenance) * horizon, the difference from which
\* roiSimplePct is computed.
C28_TimelineAgreesWithTotals ==
    (/\ Calculated
     /\ Le(In(scenarioInputs, "utilisationRampMonths"), Num(1))
     /\ In(scenarioInputs, "resaleRecoveryPctHardware") = Zero) =>
        LET cum == results.timeline.cumNetMonthly
            horizon == In(scenarioInputs, "timeHorizonYears")
            saved == Mul(results.totalSavingsAnnual, horizon)
            spent == Add(Add(results.capexHardware, results.oneOff),
                         Mul(Add(results.opexSubscriptionAnnual, results.maintenanceAnnual),
                             horizon))
        IN  /\ cum[Len(cum)] = Sub(saved, spent)
            /\ spent # Zero =>
                    results.roiSimplePct = Mul(Div(cum[Len(cum)], spent), Num(100))

\* A one-month ramp, no resale, hardware bought and a balance that is not 0
\* at the end of the horizon.
C28_Witness ==
    /\ Calculated
    /\ In(scenarioInputs, "utilisationRampMonths") = Num(1)
    /\ In(scenarioInputs, "resaleRecoveryPctHardware") = Zero
    /\ Gt(results.capexHardware, Zero)
    /\ Gt(results.opexSubscriptionAnnual, Zero)
    /\ Lt(results.timeline.cumNetMonthly[1], Zero)
    /\ Gt(results.timeline.cumNetMonthly[Len(results.timeline.cumNetMonthly)], Zero)

\* C29: validateInputs returns isValid = true exactly when the errors map it
\* returns is empty.
C29_ValidIffNoErrors ==
    Validated => (validation.isValid <=> DOMAIN validation.errors = {})

\* A record that breaks only the cross-field rule, and is rejected.
C29_Witness ==
    /\ Validated
    /\ ~validation.isValid
    /\ DOMAIN validation.errors = {"utilisationRampMonths"}
    /\ validation.errors["utilisationRampMonths"] = RampExceedsHorizon
    /\ validation.coercedInputs["utilisationRampMonths"] = NumV(Num(24))

\* C23: a burst of input events gives one recompute: every input event,
\* with both registered listeners run, leaves exactly one recompute pending
\* and runs none itself, and the timer that fires runs performCalculation
\* once and leaves none pending.
C23_BurstGivesOneRecompute ==
    [][/\ InputEvent => (Cardinality(timers') = 1 /\ cycles' = <<>>)
       /\ TimerFires => (timers' = {} /\ Len(cycles') = 1 /\ cycles'[1].who = "app")]_vars

\* Two fields have been edited and the one recompute of the burst has run.
C23_Witness ==
    /\ timers = {}
    /\ app.calculationTimeout # NoTimer
    /\ Len(cycles) = 1
    /\ cycles[1].who = "app"
    /\ app.currentInputs["vehicleCount"] = NumV(Num(3))
    /\ app.currentInputs["utilisationRampMonths"] = NumV(Num(40))

\* init() has completed and no event has been handled since.
JustInitialized ==
    /\ app.isInitialized
    /\ app.calculationTimeout = NoTimer
    /\ app.currentInputs \in InitialInputs
    /\ dom = updateDOMFromInputs(app.currentInputs)
    /\ ui.currentScenario = Text("base")
    /\ ui.currentInputs = NoInputs

\* C25: after init() with initial inputs that pass validation isInitialized
\* is true and currentResults holds the results for the loaded inputs.
C25_InitPerformsCalculation ==
    JustInitialized =>
        \E v \in {validateInputs(app.currentInputs)} :
            v.isValid =>
                /\ app.currentResults # Null
                /\ app.currentResults =
                        calculateROI(applyScenario(v.coercedInputs, ui.currentScenario))

\* C26: every export call pairs the results with the inputs they were
\* computed from under the current scenario.
C26_ExportPairsResultsWithInputs ==
    \A k \in 1..Len(exported) :
        \E v \in {validateInputs(exported[k].inputs)} :
            /\ v.isValid
            /\ exported[k].results =
                    calculateROI(applyScenario(v.coercedInputs, ui.currentScenario))

\* C27: a pending recompute runs, and the recompute the timer runs reads the
\* inputs of the latest edit: the values the page holds when it runs.
C27_RecomputeReadsLatestEdit ==
    /\ [][TimerFires =>
            /\ Len(cycles') = 1
            /\ cycles'[1].coercedInputs = coerceInputs(updateInputsFromDOM(dom))]_vars
    /\ (timers # {}) ~> (timers = {} /\ Len(cycles) = 1)

\* The recompute after an edit of the vehicle count has run on the edited
\* value.
C27_Witness ==
    /\ timers = {}
    /\ Len(cycles) = 1
    /\ cycles[1].isValid
    /\ cycles[1].coercedInputs["vehicleCount"] = NumV(Num(3))
    /\ app.currentResults # Null
    /\ app.currentResults.capexHardware =
            Mul(Num(3), In(app.currentInputs, "hardwareCostPerVehicle"))

SimpleReturned(variant) ==
    /\ simpleCall # Null
    /\ simpleCall.returned
    /\ simpleCall.variant = variant

\* C21: with no overrides calculate() of src/simple-calc.js returns a payback
\* of 8 months, an ROI that rounds to 92 and annual savings that round to
\* 53,939.
C21_DefaultsGiveReadmeResults ==
    (SimpleReturned("calculate") /\ simpleCall.inputs = NoOverrides) =>
        /\ simpleCall.result.paybackMonths = NumV(Num(8))
        /\ Round(simpleCall.result.roiSimplePct) = Num(92)
        /\ Round(simpleCall.result.totalSavingsAnnual) = Num(53939)

\* The initial costs a variant divides by the net monthly savings.
SimpleInitialCosts(variant, data) ==
    IF variant = "calculate" THEN simpleOneOffCosts(data)
    ELSE Add(simpleHardwareCost(data), simpleOneOffCosts(data))

\* C22: in each straight-line variant the payback is an explicit 'never'
\* value, no number, when the net monthly savings are zero or negative, and
\* ceil(initialCosts / netMonthlySavings) when they are positive.
C22_StraightLinePaybackOrNever ==
    (simpleCall # Null /\ simpleCall.returned) =>
        \E data \in {SimpleData(simpleCall.variant, simpleCall.inputs)} :
            IF Gt(simpleNetMonthly(data), Zero)
            THEN simpleCall.result.paybackMonths =
                    NumV(Ceil(Div(SimpleInitialCosts(simpleCall.variant, data),
                                  simpleNetMonthly(data))))
            ELSE ~IsNum(simpleCall.result.paybackMonths)

\* C30 (as stated): a record whose numeric fields hold numbers and whose
\* string fields hold strings comes back from serializeInputsToURL and
\* parseInputsFromURL equal to itself, field by field under ===; the fields
\* equal to their default are left out of the parameters and come back as
\* the defaults; a parameter that names no input field changes nothing.
UrlParsed == urlCall # Null /\ urlCall.step = "parsed"

UrlRoundTrip ==
    /\ DOMAIN urlCall.parsed = Fields
    /\ \A f \in Fields : StrictEqV(urlCall.parsed[f], urlCall.inputs[f])
    /\ \A f \in Fields :
            StrictEqV(urlCall.inputs[f], defaultInputs[f]) =>
                /\ f \notin ParamKeys(urlCall.serialized)
                /\ urlCall.parsed[f] = defaultInputs[f]
    /\ urlCall.parsed = parseInputsFromURL(urlCall.serialized)

C30_UrlRoundTrip == UrlParsed => UrlRoundTrip

\* C30 (amended): the same for a record none of whose numeric fields holds
\* NaN.
HoldsNaN(inputs) == \E f \in Fields : IsNum(inputs[f]) /\ IsNaN(inputs[f].v)

C30_UrlRoundTripWithoutNaN == (UrlParsed /\ ~HoldsNaN(urlCall.inputs)) => UrlRoundTrip

C30_Witness ==
    /\ UrlParsed
    /\ ~HoldsNaN(urlCall.inputs)
    /\ urlCall.inputs["fuelConsumptionLPer100km"] = NumV(Frac(29, 4))
    /\ urlCall.inputs["currency"] = Str(<<>>)
    /\ urlCall.inputs["resaleRecoveryPctHardware"] = defaultInputs["resaleRecoveryPctHardware"]
    /\ Len(urlCall.serialized) >= 2
    /\ Len(urlCall.searchParams) > Len(urlCall.serialized)

====
